---- MODULE Spec2Model ----
(***************************************************************************)
(* The token templating engine of brillnt-slide-templates: TokenExtractor  *)
(* (extraction and the modification-time cache), TokenReplacer (dotted     *)
(* path resolution, substitution, the missing-token policy) and            *)
(* ConfigValidator.                                                        *)
(*                                                                         *)
(* A JavaScript string is a sequence of one-character strings, so that     *)
(* the regular expressions of the code are computed character by           *)
(* character.  A JavaScript value is a record [t, s, n, kids]: t is the    *)
(* kind of value, s the characters of a string (or the source text of a    *)
(* function), n the number, kids the own properties of an object or the    *)
(* elements of an array, in insertion order.                               *)
(***************************************************************************)
EXTENDS Integers, Sequences, FiniteSets, TLC

VARIABLES
    content,    \* the template text handed to the engine
    config,     \* the configuration object handed to the engine
    last,       \* the last completed operation, its arguments and its outcome
    files,      \* the file system: absolute path -> [exists, content, mtime]
    cache,      \* TokenExtractor.cache: absolute path -> [has, tokens, mtime]
    clock,      \* the file system's clock (milliseconds)
    processor,  \* the TemplateProcessor: [options |-> this.options]
    call        \* a getCachedTokens call in progress (its position and locals)

vars == <<content, config, last, files, cache, clock, processor, call>>

----------------------------------------------------------------------------
(* Characters and strings *)

\* The printable ASCII characters in code order (without the grave accent,
\* which no text modelled here holds): String comparison in
\* Array.prototype.sort is by UTF-16 code unit.
Ascii ==
    <<" ", "!", "\"", "#", "$", "%", "&", "'", "(", ")", "*", "+", ",", "-",
      ".", "/", "0", "1", "2", "3", "4", "5", "6", "7", "8", "9", ":", ";",
      "<", "=", ">", "?", "@", "A", "B", "C", "D", "E", "F", "G", "H", "I",
      "J", "K", "L", "M", "N", "O", "P", "Q", "R", "S", "T", "U", "V", "W",
      "X", "Y", "Z", "[", "\\", "]", "^", "_", "a", "b", "c", "d", "e",
      "f", "g", "h", "i", "j", "k", "l", "m", "n", "o", "p", "q", "r", "s",
      "t", "u", "v", "w", "x", "y", "z", "{", "|", "}", "~">>

CharCode(c) == CHOOSE i \in 1..Len(Ascii) : Ascii[i] = c

Range(s) == {s[i] : i \in 1..Len(s)}

\* The whitespace of \s and of String.prototype.trim; the space is the only
\* whitespace character of the texts modelled here.
IsSpace(c) == c = " "

RECURSIVE TrimStart(_)
TrimStart(s) ==
    IF s # <<>> /\ IsSpace(Head(s)) THEN TrimStart(Tail(s)) ELSE s

RECURSIVE TrimEnd(_)
TrimEnd(s) ==
    IF s # <<>> /\ IsSpace(s[Len(s)])
    THEN TrimEnd(SubSeq(s, 1, Len(s) - 1))
    ELSE s

Trim(s) == TrimEnd(TrimStart(s))

\* The first index >= i of character c in s, 0 when there is none.
RECURSIVE IndexOfFrom(_, _, _)
IndexOfFrom(s, c, i) ==
    IF i > Len(s) THEN 0
    ELSE IF s[i] = c THEN i
    ELSE IndexOfFrom(s, c, i + 1)

\* a < b for two strings, as the default comparison of Array.prototype.sort.
RECURSIVE StrLess(_, _)
StrLess(a, b) ==
    IF a = <<>> THEN b # <<>>
    ELSE IF b = <<>> THEN FALSE
    ELSE IF Head(a) = Head(b) THEN StrLess(Tail(a), Tail(b))
    ELSE CharCode(Head(a)) < CharCode(Head(b))

RECURSIVE SortStrings(_)
SortStrings(S) ==
    IF S = {} THEN <<>>
    ELSE LET m == CHOOSE x \in S : \A y \in S \ {x} : StrLess(x, y)
         IN  <<m>> \o SortStrings(S \ {m})

----------------------------------------------------------------------------
(* TokenExtractor.extractTokens *)

\* tokenRegex = /\{\{([^}]+)\}\}/ tried at index i of s: the index of the last
\* character of the match, 0 when it does not match there.  [^}]+ is greedy and
\* stops at the first "}", which must start the closing "}}".
TokenRegexEnd(s, i) ==
    IF i + 1 > Len(s) \/ s[i] # "{" \/ s[i + 1] # "{" THEN 0
    ELSE LET j == IndexOfFrom(s, "}", i + 2)
         IN  IF j > i + 2 /\ j + 1 <= Len(s) /\ s[j + 1] = "}"
             THEN j + 1
             ELSE 0

\* The while loop over tokenRegex.exec: match[1] of every match, left to right,
\* each search starting after the previous match.
RECURSIVE ExecAll(_, _)
ExecAll(s, i) ==
    IF i > Len(s) THEN <<>>
    ELSE LET e == TokenRegexEnd(s, i)
         IN  IF e = 0 THEN ExecAll(s, i + 1)
             ELSE <<SubSeq(s, i + 2, e - 2)>> \o ExecAll(s, e + 1)

\* An extractTokens that adds match[1] to the set as it is, without trim().
ExtractTokensUntrimmed(templateContent) ==
    SortStrings(Range(ExecAll(templateContent, 1)))

ExtractTokens(templateContent) ==
    SortStrings({Trim(m) : m \in Range(ExecAll(templateContent, 1))})

----------------------------------------------------------------------------
(* TokenReplacer: the token's regular expression and String.replace *)

\* The characters of the class [.*+?^${}()|[\\] of escapeRegex's pattern.
EscapeClass ==
    {".", "*", "+", "?", "^", "$", "{", "}", "(", ")", "|", "[", "\\"}

\* str.replace(/[.*+?^${}()|[\\]\\\\]/g, '\\\\$&'): the class is closed by the
\* first "]", so the pattern is one character of the class followed by two
\* backslashes and a "]"; a match is replaced by two backslashes and itself.
RECURSIVE EscapeFrom(_, _)
EscapeFrom(str, i) ==
    IF i > Len(str) THEN <<>>
    ELSE IF /\ i + 3 <= Len(str)
            /\ str[i] \in EscapeClass
            /\ str[i + 1] = "\\"
            /\ str[i + 2] = "\\"
            /\ str[i + 3] = "]"
         THEN <<"\\", "\\">> \o SubSeq(str, i, i + 3) \o EscapeFrom(str, i + 4)
         ELSE <<str[i]>> \o EscapeFrom(str, i + 1)

EscapeRegex(str) == EscapeFrom(str, 1)

\* The part of the RegExp source that comes from the token, as atoms: "." is
\* any character, a backslash makes the next character literal, every other
\* character of a token name modelled here (letters, digits, space, "{")
\* stands for itself.
RECURSIVE PatternAtoms(_)
PatternAtoms(src) ==
    IF src = <<>> THEN <<>>
    ELSE IF Head(src) = "\\" /\ Len(src) >= 2
         THEN <<[any |-> FALSE, c |-> src[2]]>>
              \o PatternAtoms(SubSeq(src, 3, Len(src)))
         ELSE <<[any |-> Head(src) = ".", c |-> Head(src)]>>
              \o PatternAtoms(Tail(src))

\* new RegExp of "\\{\\{\\s*" + this.escapeRegex(token) + "\\s*\\}\\}", with flag g
TokenRegex(token) == PatternAtoms(EscapeRegex(token))

\* The number of whitespace characters of s from index i on.
RECURSIVE SpacesFrom(_, _)
SpacesFrom(s, i) ==
    IF i <= Len(s) /\ IsSpace(s[i]) THEN 1 + SpacesFrom(s, i + 1) ELSE 0

AtomsMatch(atoms, s, p) ==
    /\ p + Len(atoms) - 1 <= Len(s)
    /\ \A k \in 1..Len(atoms) : atoms[k].any \/ atoms[k].c = s[p + k - 1]

\* The match of \{\{ \s* atoms \s* \}\} at index i when the first \s* takes k1
\* spaces: the index of its last character, or 0.  The second \s* is greedy and
\* the "}}" must follow all whitespace.
MatchWith(atoms, s, i, k1) ==
    LET p == i + 2 + k1
        q == p + Len(atoms)
        r == q + SpacesFrom(s, q)
    IN  IF /\ AtomsMatch(atoms, s, p)
           /\ r + 1 <= Len(s)
           /\ s[r] = "}"
           /\ s[r + 1] = "}"
        THEN r + 1
        ELSE 0

\* Backtracking over the first \s*, longest first.
RECURSIVE MatchBacktrack(_, _, _, _)
MatchBacktrack(atoms, s, i, k1) ==
    IF k1 < 0 THEN 0
    ELSE LET e == MatchWith(atoms, s, i, k1)
         IN  IF e # 0 THEN e ELSE MatchBacktrack(atoms, s, i, k1 - 1)

RegexMatchEnd(atoms, s, i) ==
    IF i + 1 > Len(s) \/ s[i] # "{" \/ s[i + 1] # "{" THEN 0
    ELSE MatchBacktrack(atoms, s, i, SpacesFrom(s, i + 2))

\* The replacement string of String.prototype.replace for the match s[b..e]:
\* $$ is a "$", $& the match, $' the text after it; the pattern has no capture
\* group, so every other "$" of the texts modelled here stands for itself.
RECURSIVE Expand(_, _, _, _)
Expand(repl, s, b, e) ==
    IF repl = <<>> THEN <<>>
    ELSE IF Head(repl) = "$" /\ Len(repl) >= 2 /\ repl[2] \in {"$", "&", "'"}
         THEN (CASE repl[2] = "$" -> <<"$">>
                 [] repl[2] = "&" -> SubSeq(s, b, e)
                 [] repl[2] = "'" -> SubSeq(s, e + 1, Len(s)))
              \o Expand(SubSeq(repl, 3, Len(repl)), s, b, e)
         ELSE <<Head(repl)>> \o Expand(Tail(repl), s, b, e)

\* result.replace(tokenRegex, replacement) with the g flag: every match, left
\* to right, none overlapping; the inserted text is not scanned again.
RECURSIVE ReplaceFrom(_, _, _, _)
ReplaceFrom(s, atoms, repl, i) ==
    IF i > Len(s) THEN <<>>
    ELSE LET e == RegexMatchEnd(atoms, s, i)
         IN  IF e = 0 THEN <<s[i]>> \o ReplaceFrom(s, atoms, repl, i + 1)
             ELSE Expand(repl, s, i, e) \o ReplaceFrom(s, atoms, repl, e + 1)

StringReplace(s, atoms, repl) == ReplaceFrom(s, atoms, repl, 1)

----------------------------------------------------------------------------
(* JavaScript values *)

Undefined == [t |-> "undefined", s |-> <<>>, n |-> 0, kids |-> <<>>]
Null == [t |-> "null", s |-> <<>>, n |-> 0, kids |-> <<>>]
Str(s) == [t |-> "string", s |-> s, n |-> 0, kids |-> <<>>]
Num(n) == [t |-> "number", s |-> <<>>, n |-> n, kids |-> <<>>]
Bool(b) == [t |-> "boolean", s |-> <<>>, n |-> IF b THEN 1 ELSE 0, kids |-> <<>>]
Fn(src) == [t |-> "function", s |-> src, n |-> 0, kids |-> <<>>]
Prop(k, v) == [k |-> k, v |-> v]
Obj(props) == [t |-> "object", s |-> <<>>, n |-> 0, kids |-> props]

DigitChars == <<"0", "1", "2", "3", "4", "5", "6", "7", "8", "9">>

\* The decimal digits of a natural number.
RECURSIVE NatToStr(_)
NatToStr(n) ==
    IF n < 10 THEN <<DigitChars[n + 1]>>
    ELSE NatToStr(n \div 10) \o <<DigitChars[(n % 10) + 1]>>

\* An array: its elements are own properties named by their index.
Arr(elems) ==
    [t |-> "array", s |-> <<>>, n |-> 0,
     kids |-> [i \in 1..Len(elems) |-> Prop(NatToStr(i - 1), elems[i])]]

\* typeof value
TypeOf(v) ==
    CASE v.t \in {"null", "object", "array"} -> "object"
      [] OTHER -> v.t

\* The values for which !value is false.
Truthy(v) ==
    CASE v.t \in {"undefined", "null"} -> FALSE
      [] v.t = "string" -> v.s # <<>>
      [] v.t = "number" -> v.n # 0
      [] v.t = "boolean" -> v.n = 1
      [] OTHER -> TRUE

ObjectCtorSource ==
    <<"f", "u", "n", "c", "t", "i", "o", "n", " ", "O", "b", "j", "e", "c", "t",
      "(", ")", " ", "{", " ", "[", "n", "a", "t", "i", "v", "e", " ", "c", "o",
      "d", "e", "]", " ", "}">>

ArrayCtorSource ==
    <<"f", "u", "n", "c", "t", "i", "o", "n", " ", "A", "r", "r", "a", "y",
      "(", ")", " ", "{", " ", "[", "n", "a", "t", "i", "v", "e", " ", "c", "o",
      "d", "e", "]", " ", "}">>

ConstructorKey == <<"c", "o", "n", "s", "t", "r", "u", "c", "t", "o", "r">>
LengthKey == <<"l", "e", "n", "g", "t", "h">>

HasOwn(obj, key) == \E i \in 1..Len(obj.kids) : obj.kids[i].k = key

OwnValue(obj, key) ==
    obj.kids[CHOOSE i \in 1..Len(obj.kids) : obj.kids[i].k = key].v

\* obj[key] for an object or an array: an own property, the length of an
\* array, or a property inherited from Object.prototype / Array.prototype (of
\* which constructor is the one a token name modelled here can spell).
GetProp(obj, key) ==
    IF HasOwn(obj, key) THEN OwnValue(obj, key)
    ELSE IF obj.t = "array" /\ key = LengthKey THEN Num(Len(obj.kids))
    ELSE IF key = ConstructorKey
         THEN Fn(IF obj.t = "array" THEN ArrayCtorSource ELSE ObjectCtorSource)
    ELSE Undefined

RECURSIVE JoinComma(_)
\* String(value)
RECURSIVE StringOf(_)
StringOf(v) ==
    CASE v.t = "string" -> v.s
      [] v.t = "function" -> v.s
      [] v.t = "number" ->
            IF v.n < 0 THEN <<"-">> \o NatToStr(0 - v.n) ELSE NatToStr(v.n)
      [] v.t = "boolean" ->
            IF v.n = 1 THEN <<"t", "r", "u", "e">>
            ELSE <<"f", "a", "l", "s", "e">>
      [] v.t = "object" ->
            <<"[", "o", "b", "j", "e", "c", "t", " ",
              "O", "b", "j", "e", "c", "t", "]">>
      [] v.t = "array" -> JoinComma(v.kids)
      [] v.t = "null" -> <<"n", "u", "l", "l">>
      [] OTHER -> <<"u", "n", "d", "e", "f", "i", "n", "e", "d">>

\* Array.prototype.join: null and undefined elements are empty strings.
JoinComma(kids) ==
    IF kids = <<>> THEN <<>>
    ELSE (IF kids[1].v.t \in {"null", "undefined"} THEN <<>>
          ELSE StringOf(kids[1].v))
         \o (IF Len(kids) > 1 THEN <<",">> \o JoinComma(Tail(kids)) ELSE <<>>)

----------------------------------------------------------------------------
(* TokenReplacer.getNestedValue *)

\* path.split('.')
RECURSIVE SplitDot(_)
SplitDot(path) ==
    LET i == IndexOfFrom(path, ".", 1)
    IN  IF i = 0 THEN <<path>>
        ELSE <<SubSeq(path, 1, i - 1)>>
             \o SplitDot(SubSeq(path, i + 1, Len(path)))

\* The for loop over the parts of the path.
RECURSIVE Descend(_, _)
Descend(current, parts) ==
    IF parts = <<>> THEN current
    ELSE IF current.t \in {"null", "undefined"} THEN Undefined
    ELSE IF TypeOf(current) # "object" THEN Undefined
    ELSE Descend(GetProp(current, Head(parts)), Tail(parts))

GetNestedValue(obj, path) ==
    IF ~Truthy(obj) \/ TypeOf(obj) # "object" THEN Undefined
    ELSE IF IndexOfFrom(path, ".", 1) = 0 THEN GetProp(obj, path)
    ELSE Descend(obj, SplitDot(path))

----------------------------------------------------------------------------
(* TokenReplacer.replaceTokens *)

MissingPlaceholder == <<"[", "M", "I", "S", "S", "I", "N", "G", "]">>

DefaultReplaceOptions ==
    [errorHandling |-> "warn",
     missingTokenPlaceholder |-> MissingPlaceholder,
     preserveUnknownTokens |-> FALSE]

\* A handleMissingToken that records the first missing token only.
HandleMissingTokenFirstOnly(token, options, warnings) ==
    LET message == [token |-> token, text |-> "not found in config"]
        pushed == IF warnings = <<>> THEN <<message>> ELSE warnings
        replace == options.errorHandling \in {"warn", "graceful"}
    IN  [warnings |-> pushed, shouldReplace |-> replace,
         replacement |-> IF replace THEN options.missingTokenPlaceholder ELSE <<>>]

\* handleMissingToken without an error: nothing in the try block of
\* replaceTokens throws for a configuration parsed from JSON, so the catch
\* branch is never taken.  The message is kept as the token it names.
HandleMissingToken(token, options, warnings) ==
    LET message == [token |-> token, text |-> "not found in config"]
        pushed == Append(warnings, message)
    IN  CASE options.errorHandling = "fail" ->
               [warnings |-> pushed, shouldReplace |-> FALSE, replacement |-> <<>>]
          [] options.errorHandling = "warn" ->
               [warnings |-> pushed, shouldReplace |-> TRUE,
                replacement |-> options.missingTokenPlaceholder]
          [] options.errorHandling = "graceful" ->
               [warnings |-> pushed, shouldReplace |-> TRUE,
                replacement |-> options.missingTokenPlaceholder]
          [] OTHER ->
               [warnings |-> pushed, shouldReplace |-> FALSE, replacement |-> <<>>]

\* An iteration that leaves the marker of a missing token in place under the
\* graceful policy.
ReplaceStepGracefulKeeps(acc, token, cfg, opts) ==
    LET tokenRegex == TokenRegex(token)
        value == GetNestedValue(cfg, token)
    IN  IF value.t \notin {"undefined", "null"}
        THEN [acc EXCEPT
                !.result = StringReplace(@, tokenRegex, StringOf(value)),
                !.substituted = Append(@, token)]
        ELSE LET handled == HandleMissingToken(token, opts, acc.warnings)
                 replace == handled.shouldReplace /\ opts.errorHandling # "graceful"
             IN  [acc EXCEPT
                    !.warnings = handled.warnings,
                    !.result = IF replace
                               THEN StringReplace(@, tokenRegex, handled.replacement)
                               ELSE @,
                    !.placed = IF replace THEN Append(@, token) ELSE @]

\* One iteration of "for (const token of tokens)".  substituted lists the
\* tokens replaced by their configured value, placed the tokens replaced by
\* the placeholder.
ReplaceStep(acc, token, cfg, opts) ==
    LET tokenRegex == TokenRegex(token)
        value == GetNestedValue(cfg, token)
    IN  IF value.t \notin {"undefined", "null"}
        THEN [acc EXCEPT
                !.result = StringReplace(@, tokenRegex, StringOf(value)),
                !.substituted = Append(@, token)]
        ELSE LET handled == HandleMissingToken(token, opts, acc.warnings)
             IN  [acc EXCEPT
                    !.warnings = handled.warnings,
                    !.result = IF handled.shouldReplace
                               THEN StringReplace(@, tokenRegex, handled.replacement)
                               ELSE @,
                    !.placed = IF handled.shouldReplace THEN Append(@, token) ELSE @]

RECURSIVE ReplaceLoop(_, _, _, _)
ReplaceLoop(acc, tokens, cfg, opts) ==
    IF tokens = <<>> THEN acc
    ELSE ReplaceLoop(ReplaceStep(acc, Head(tokens), cfg, opts), Tail(tokens), cfg, opts)

\* A replaceTokens that prints a warning for every marker it replaced by the
\* placeholder, not one for every missing token.
ReplaceTokensWarnEveryMarker(text, cfg, tokens, options) ==
    LET opts == options @@ DefaultReplaceOptions
        list == IF tokens.given THEN tokens.list ELSE ExtractTokens(text)
        done == ReplaceLoop([result |-> text, warnings |-> <<>>,
                             substituted |-> <<>>, placed |-> <<>>],
                            list, cfg, opts)
        markers == ExecAll(text, 1)
        perMarker == [i \in 1..Len(markers) |->
                        [token |-> Trim(markers[i]), text |-> "not found in config"]]
    IN  IF done.warnings # <<>> /\ opts.errorHandling = "fail"
        THEN [threw |-> TRUE, error |-> done.warnings, text |-> <<>>,
              console |-> <<>>, substituted |-> done.substituted,
              placed |-> done.placed]
        ELSE [threw |-> FALSE, error |-> <<>>, text |-> done.result,
              console |-> IF done.warnings # <<>> /\ opts.errorHandling = "warn"
                          THEN SelectSeq(perMarker,
                                         LAMBDA w : w.token \in Range(done.placed))
                          ELSE <<>>,
              substituted |-> done.substituted, placed |-> done.placed]

\* tokens is [given, list]: given is FALSE for the default null, and the
\* tokens are then extracted from the content.  The outcome is either a thrown
\* error (its message joins all warnings) or the returned text; console is
\* what console.warn printed.
ReplaceTokens(text, cfg, tokens, options) ==
    LET opts == options @@ DefaultReplaceOptions
        list == IF tokens.given THEN tokens.list ELSE ExtractTokens(text)
        done == ReplaceLoop([result |-> text, warnings |-> <<>>,
                             substituted |-> <<>>, placed |-> <<>>],
                            list, cfg, opts)
    IN  IF done.warnings # <<>> /\ opts.errorHandling = "fail"
        THEN [threw |-> TRUE, error |-> done.warnings, text |-> <<>>,
              console |-> <<>>, substituted |-> done.substituted,
              placed |-> done.placed]
        ELSE [threw |-> FALSE, error |-> <<>>, text |-> done.result,
              console |-> IF done.warnings # <<>> /\ opts.errorHandling = "warn"
                          THEN done.warnings ELSE <<>>,
              substituted |-> done.substituted, placed |-> done.placed]

----------------------------------------------------------------------------
(* TokenReplacer.previewReplacements *)

\* An iteration that takes every value but undefined for a found one.
PreviewStepNullFound(preview, token, cfg) ==
    LET value == GetNestedValue(cfg, token)
    IN  IF value.t # "undefined"
        THEN [preview EXCEPT !.tokens =
                Append(@, [token |-> token, value |-> StringOf(value),
                           status |-> "found"])]
        ELSE [preview EXCEPT !.missing =
                Append(@, [token |-> token, path |-> token, status |-> "missing"])]

\* One iteration of the loop, lines 171-193; getNestedValue throws nothing,
\* so the catch branch adds no error.
PreviewStep(preview, token, cfg) ==
    LET value == GetNestedValue(cfg, token)
    IN  IF value.t \notin {"undefined", "null"}
        THEN [preview EXCEPT !.tokens =
                Append(@, [token |-> token, value |-> StringOf(value),
                           status |-> "found"])]
        ELSE [preview EXCEPT !.missing =
                Append(@, [token |-> token, path |-> token, status |-> "missing"])]

RECURSIVE PreviewLoop(_, _, _)
PreviewLoop(preview, tokens, cfg) ==
    IF tokens = <<>> THEN preview
    ELSE PreviewLoop(PreviewStep(preview, Head(tokens), cfg), Tail(tokens), cfg)

\* previewReplacements(content, config, tokens): tokens is [given, list] as
\* for replaceTokens.  The content is read by extractTokens only.
PreviewReplacements(text, cfg, tokens) ==
    PreviewLoop([tokens |-> <<>>, missing |-> <<>>, errors |-> <<>>],
                IF tokens.given THEN tokens.list ELSE ExtractTokens(text), cfg)

----------------------------------------------------------------------------
(* ConfigValidator *)

DefaultValidateOptions ==
    [strictMode |-> FALSE, allowEmpty |-> FALSE, warnOnUnused |-> FALSE]

\* A validateSingleToken for which an empty string is missing whatever
\* allowEmpty says.
ValidateSingleTokenNeverEmpty(cfg, token, options) ==
    LET value == GetNestedValue(cfg, token)
    IN  IF value.t = "undefined"
        THEN [found |-> FALSE, value |-> Undefined, reason |-> "not found in config"]
        ELSE IF value.t = "null"
        THEN [found |-> FALSE, value |-> Undefined, reason |-> "value is null"]
        ELSE IF value.t = "string" /\ value.s = <<>>
        THEN [found |-> FALSE, value |-> Undefined, reason |-> "value is empty string"]
        ELSE [found |-> TRUE, value |-> value, reason |-> ""]

ValidateSingleToken(cfg, token, options) ==
    LET value == GetNestedValue(cfg, token)
    IN  IF value.t = "undefined"
        THEN [found |-> FALSE, value |-> Undefined, reason |-> "not found in config"]
        ELSE IF value.t = "null"
        THEN [found |-> FALSE, value |-> Undefined, reason |-> "value is null"]
        ELSE IF ~options.allowEmpty /\ value.t = "string" /\ value.s = <<>>
        THEN [found |-> FALSE, value |-> Undefined, reason |-> "value is empty string"]
        ELSE [found |-> TRUE, value |-> value, reason |-> ""]

\* The properties a for-in loop with hasOwnProperty visits: the own properties
\* of an object, the elements of an array, the characters of a string.
OwnEnumerable(obj) ==
    CASE obj.t \in {"object", "array"} -> obj.kids
      [] obj.t = "string" ->
            [i \in 1..Len(obj.s) |-> Prop(NatToStr(i - 1), Str(<<obj.s[i]>>))]
      [] OTHER -> <<>>

RECURSIVE GetAllConfigPaths(_, _)
RECURSIVE PathsOfProps(_, _)
PathsOfProps(props, prefix) ==
    IF props = <<>> THEN <<>>
    ELSE LET key == Head(props).k
             v == Head(props).v
             currentPath == IF prefix # <<>> THEN prefix \o <<".">> \o key ELSE key
         IN  (IF Truthy(v) /\ TypeOf(v) = "object" /\ v.t # "array"
              THEN GetAllConfigPaths(v, currentPath)
              ELSE <<currentPath>>)
             \o PathsOfProps(Tail(props), prefix)

GetAllConfigPaths(obj, prefix) == PathsOfProps(OwnEnumerable(obj), prefix)

\* A findUnusedConfigValues that lists every path of the configuration.
FindUnusedListsEveryPath(cfg, usedTokens) == GetAllConfigPaths(cfg, <<>>)

FindUnusedConfigValues(cfg, usedTokens) ==
    SelectSeq(GetAllConfigPaths(cfg, <<>>), LAMBDA p : p \notin Range(usedTokens))

\* An iteration that, in strict mode, records an error for the first missing
\* token only.
ValidateStepFirstError(result, token, cfg, opts) ==
    LET validation == ValidateSingleToken(cfg, token, opts)
        issue == [kind |-> "missing", token |-> token,
                  reason |-> validation.reason, paths |-> <<>>]
    IN  IF validation.found
        THEN [result EXCEPT
                !.found = Append(@, [token |-> token, value |-> validation.value,
                                     type |-> TypeOf(validation.value)])]
        ELSE [result EXCEPT
                !.missing = Append(@, [token |-> token, reason |-> validation.reason]),
                !.errors = IF opts.strictMode /\ @ = <<>> THEN Append(@, issue) ELSE @,
                !.valid = IF opts.strictMode THEN FALSE ELSE @,
                !.warnings = IF opts.strictMode THEN @ ELSE Append(@, issue)]

\* One iteration of "for (const token of requiredTokens)".
ValidateStep(result, token, cfg, opts) ==
    LET validation == ValidateSingleToken(cfg, token, opts)
        issue == [kind |-> "missing", token |-> token,
                  reason |-> validation.reason, paths |-> <<>>]
    IN  IF validation.found
        THEN [result EXCEPT
                !.found = Append(@, [token |-> token, value |-> validation.value,
                                     type |-> TypeOf(validation.value)])]
        ELSE [result EXCEPT
                !.missing = Append(@, [token |-> token, reason |-> validation.reason]),
                !.errors = IF opts.strictMode THEN Append(@, issue) ELSE @,
                !.valid = IF opts.strictMode THEN FALSE ELSE @,
                !.warnings = IF opts.strictMode THEN @ ELSE Append(@, issue)]

RECURSIVE ValidateLoop(_, _, _, _)
ValidateLoop(result, tokens, cfg, opts) ==
    IF tokens = <<>> THEN result
    ELSE ValidateLoop(ValidateStep(result, Head(tokens), cfg, opts),
                      Tail(tokens), cfg, opts)

ValidateAgainstTokens(cfg, requiredTokens, options) ==
    LET opts == options @@ DefaultValidateOptions
        checked == ValidateLoop([valid |-> TRUE, errors |-> <<>>, warnings |-> <<>>,
                                 missing |-> <<>>, found |-> <<>>, unused |-> <<>>],
                                requiredTokens, cfg, opts)
        unusedValues == FindUnusedConfigValues(cfg, requiredTokens)
    IN  IF opts.warnOnUnused
        THEN [checked EXCEPT
                !.unused = unusedValues,
                !.warnings = IF unusedValues # <<>>
                             THEN Append(@, [kind |-> "unused", token |-> <<>>,
                                             reason |-> "", paths |-> unusedValues])
                             ELSE @]
        ELSE checked

\* obj[key] = value: the own property is replaced where it stands, or added
\* after the others.
SetProp(obj, key, value) ==
    IF HasOwn(obj, key)
    THEN [obj EXCEPT !.kids = [i \in 1..Len(@) |->
                                 IF @[i].k = key THEN Prop(key, value) ELSE @[i]]]
    ELSE [obj EXCEPT !.kids = Append(@, Prop(key, value))]

\* part in current: an own property, the length of an array or a property
\* inherited from the prototype.
HasIn(obj, key) ==
    \/ HasOwn(obj, key)
    \/ obj.t = "array" /\ key = LengthKey
    \/ key = ConstructorKey

\* setNestedValue(obj, path, value), the path already split: the object after
\* the call.  Every value on the way is a mapping the loop has just checked or
\* created.
RECURSIVE SetNestedParts(_, _, _)
SetNestedParts(current, parts, value) ==
    IF Len(parts) = 1 THEN SetProp(current, Head(parts), value)
    ELSE LET part == Head(parts)
             fresh == ~HasIn(current, part) \/ TypeOf(GetProp(current, part)) # "object"
             next == IF fresh THEN Obj(<<>>) ELSE GetProp(current, part)
         IN  SetProp(current, part, SetNestedParts(next, Tail(parts), value))

SetNestedValue(obj, path, value) == SetNestedParts(obj, SplitDot(path), value)

\* The suggested value of a token: its name in square brackets.
SuggestedValue(token) == Str(<<"[">> \o token \o <<"]">>)

\* A generateConfigSuggestions that keeps the first suggestion made for a key
\* instead of assigning over it.
RECURSIVE GenerateConfigSuggestionsKeepFirst(_, _)
GenerateConfigSuggestionsKeepFirst(suggestions, missingTokens) ==
    IF missingTokens = <<>> THEN suggestions
    ELSE LET token == Head(missingTokens).token
             first == Head(SplitDot(token))
         IN  GenerateConfigSuggestionsKeepFirst(
                 IF HasOwn(suggestions, first) THEN suggestions
                 ELSE IF IndexOfFrom(token, ".", 1) # 0
                 THEN SetNestedValue(suggestions, token, SuggestedValue(token))
                 ELSE SetProp(suggestions, token, SuggestedValue(token)),
                 Tail(missingTokens))

\* generateConfigSuggestions(missingTokens): the loop, from the suggestions
\* made so far.
RECURSIVE GenerateConfigSuggestions(_, _)
GenerateConfigSuggestions(suggestions, missingTokens) ==
    IF missingTokens = <<>> THEN suggestions
    ELSE LET token == Head(missingTokens).token
         IN  GenerateConfigSuggestions(
                 IF IndexOfFrom(token, ".", 1) # 0
                 THEN SetNestedValue(suggestions, token, SuggestedValue(token))
                 ELSE SetProp(suggestions, token, SuggestedValue(token)),
                 Tail(missingTokens))

\* Suggestions written into the configuration itself.
SuggestObjectsInPlace(cfg, missingTokens) ==
    LET written == IF cfg.t = "object"
                   THEN GenerateConfigSuggestions(cfg, missingTokens)
                   ELSE cfg
    IN  [config |-> written, suggestions |-> written]

\* The two objects after generateConfigSuggestions(missingTokens), called by
\* a report on cfg: the only writes of the validator are those of lines 426,
\* 429, 450 and 455, all into the object created by line 420 and the objects
\* created under it; the configuration is not among them.
SuggestObjects(cfg, missingTokens) ==
    [config |-> cfg,
     suggestions |-> GenerateConfigSuggestions(Obj(<<>>), missingTokens)]

\* generateValidationReport(config, tokens, options); suggestedConfig is
\* undefined when the report has none.
GenerateValidationReport(cfg, tokens, options) ==
    LET validation == ValidateAgainstTokens(cfg, tokens, options)
        suggestedConfig == SuggestObjects(cfg, validation.missing).suggestions
        suggests == validation.missing # <<>> /\ suggestedConfig.kids # <<>>
    IN  [summary |-> [total |-> Len(tokens),
                      found |-> Len(validation.found),
                      missing |-> Len(validation.missing),
                      valid |-> validation.valid],
         details |-> validation,
         suggestedConfig |-> IF suggests THEN suggestedConfig ELSE Undefined,
         recommendations |->
             (IF validation.missing # <<>> THEN <<"Add missing tokens to your config file">> ELSE <<>>)
             \o (IF suggests THEN <<"Consider adding these fields to your config">> ELSE <<>>)
             \o (IF validation.unused # <<>>
                 THEN <<"Remove unused config values to keep config clean">> ELSE <<>>)]

----------------------------------------------------------------------------
(* The inputs of the engine *)

KeyA == <<"a">>
KeyB == <<"b">>

\* The pieces template texts are made of: markers of the tokens a, a.b, axb,
\* a.0 and constructor, a marker with whitespace, an unterminated marker and
\* plain text.
Pieces ==
    { <<"{", "{", "a", "}", "}">>,
      <<"{", "{", " ", "a", " ", "}", "}">>,
      <<"{", "{", "a", ".", "b", "}", "}">>,
      <<"{", "{", "a", "x", "b", "}", "}">>,
      <<"{", "{", "a", ".", "0", "}", "}">>,
      <<"{", "{", "c", "o", "n", "s", "t", "r", "u", "c", "t", "o", "r", "}", "}">>,
      <<"{", "{", "a">>,
      <<"x">> }

\* The longest template text, in pieces.
MaxPieces == 2

RECURSIVE TextsOf(_)
TextsOf(n) ==
    IF n = 0 THEN {<<>>}
    ELSE LET shorter == TextsOf(n - 1)
         IN  shorter \cup {t \o p : t \in shorter, p \in Pieces}

Texts == TextsOf(MaxPieces)

\* The configurations: {}, {a: "v"}, {a: "v", b: "y"}, {a: {b: "w"}},
\* {a: "$&"}, {a: ""}, {a: null}, {a: ["e"]}, {a: 15} and a configuration that
\* is no object.
Configs ==
    { Obj(<<>>),
      Obj(<<Prop(KeyA, Str(<<"v">>))>>),
      Obj(<<Prop(KeyA, Str(<<"v">>)), Prop(KeyB, Str(<<"y">>))>>),
      Obj(<<Prop(KeyA, Obj(<<Prop(KeyB, Str(<<"w">>))>>))>>),
      Obj(<<Prop(KeyA, Str(<<"$", "&">>))>>),
      Obj(<<Prop(KeyA, Str(<<>>))>>),
      Obj(<<Prop(KeyA, Null)>>),
      Obj(<<Prop(KeyA, Arr(<<Str(<<"e">>)>>))>>),
      Obj(<<Prop(KeyA, Num(15))>>),
      Str(<<"v">>) }

\* The values of the errorHandling option: the three policies and a string
\* that is none of them.
Policies == {"fail", "warn", "graceful", "strict"}

\* Dotted paths getNestedValue is asked for, besides the tokens of the text.
ProbePaths ==
    { KeyA,
      <<"a", ".", "b">>,
      <<"a", ".", "b", ".", "a">>,
      <<"a", ".", "0">>,
      <<"a", ".", "l", "e", "n", "g", "t", "h">>,
      <<"a", ".", "c", "o", "n", "s", "t", "r", "u", "c", "t", "o", "r">>,
      ConstructorKey,
      <<>> }

----------------------------------------------------------------------------
(* The file system and the extractor's cache *)

AbsPaths == {"/w/a.html", "/w/b.html"}

\* The spellings a caller passes; "a.html" is relative to the working
\* directory /w.
InputPaths == AbsPaths \cup {"a.html"}

\* path.resolve(templatePath)
PathResolve(templatePath) ==
    IF templatePath = "a.html" THEN "/w/a.html" ELSE templatePath

NoFile == [exists |-> FALSE, content |-> <<>>, mtime |-> 0]
NoEntry == [has |-> FALSE, tokens |-> <<>>, mtime |-> 0]
Idle == [pc |-> "idle", path |-> "", check |-> "", tokens |-> <<>>]

\* this.options of a processor constructed without options.
DefaultProcessorOptions ==
    [errorHandling |-> "warn",
     missingTokenPlaceholder |-> MissingPlaceholder,
     strictValidation |-> FALSE,
     allowEmptyValues |-> FALSE,
     warnOnUnused |-> FALSE,
     cacheTokens |-> TRUE]

\* new TemplateProcessor(options): the options given override the defaults,
\* whatever they are.
TemplateProcessor(options) == [options |-> options @@ DefaultProcessorOptions]

\* An object literal without properties.
NoOptions == [name \in {} |-> ""]

InitFiles == files = [p \in AbsPaths |-> NoFile] /\ clock = 0
InitCache == cache = [p \in AbsPaths |-> NoEntry] /\ call = Idle

----------------------------------------------------------------------------
(* The engine applied to one text and one configuration *)

Init ==
    /\ processor = TemplateProcessor(NoOptions)
    /\ content \in Texts
    /\ config \in Configs
    /\ last = [op |-> "none"]
    /\ InitFiles
    /\ InitCache

\* TokenReplacer.replaceTokens(content, config, tokens, {errorHandling}), the
\* tokens being those extracted from the content, as processTemplate passes
\* them.
ReplaceTokensCall(policy) ==
    /\ last.op = "none"
    /\ LET tokens == ExtractTokens(content)
           options == [errorHandling |-> policy]
       IN  last' = [op |-> "replaceTokens", tokens |-> tokens, options |-> options,
                    out |-> ReplaceTokens(content, config,
                                          [given |-> TRUE, list |-> tokens], options)]
    /\ UNCHANGED <<processor, content, config, files, cache, clock, call>>

\* ConfigValidator.validateAgainstTokens(config, tokens, options)
ValidateCall(strictMode, allowEmpty, warnOnUnused) ==
    /\ last.op = "none"
    /\ LET tokens == ExtractTokens(content)
           options == [strictMode |-> strictMode, allowEmpty |-> allowEmpty,
                       warnOnUnused |-> warnOnUnused]
       IN  last' = [op |-> "validateAgainstTokens", tokens |-> tokens,
                    options |-> options,
                    report |-> ValidateAgainstTokens(config, tokens, options)]
    /\ UNCHANGED <<processor, content, config, files, cache, clock, call>>

\* TokenReplacer.getNestedValue(config, path)
GetNestedValueCall(path) ==
    /\ last.op = "none"
    /\ last' = [op |-> "getNestedValue", path |-> path,
                value |-> GetNestedValue(config, path)]
    /\ UNCHANGED <<processor, content, config, files, cache, clock, call>>

\* TokenExtractor.extractTokens(content); a second call on the same text
\* keeps the list of the first in previous.
ExtractTokensCall ==
    /\ last.op = "none" \/ (last.op = "extractTokens" /\ last.calls = 1)
    /\ last' = [op |-> "extractTokens",
                calls |-> IF last.op = "none" THEN 1 ELSE 2,
                previous |-> IF last.op = "none" THEN <<>> ELSE last.tokens,
                tokens |-> ExtractTokens(content)]
    /\ UNCHANGED <<processor, content, config, files, cache, clock, call>>

\* ConfigValidator.generateValidationReport(config, tokens, options)
GenerateValidationReportCall(strictMode, allowEmpty, warnOnUnused) ==
    /\ last.op = "none"
    /\ LET tokens == ExtractTokens(content)
           options == [strictMode |-> strictMode, allowEmpty |-> allowEmpty,
                       warnOnUnused |-> warnOnUnused]
       IN  last' = [op |-> "generateValidationReport", tokens |-> tokens,
                    options |-> options,
                    report |-> GenerateValidationReport(config, tokens, options)]
    /\ config' = SuggestObjects(config,
                     ValidateAgainstTokens(config, ExtractTokens(content),
                         [strictMode |-> strictMode, allowEmpty |-> allowEmpty,
                          warnOnUnused |-> warnOnUnused]).missing).config
    /\ UNCHANGED <<processor, content, files, cache, clock, call>>

\* TokenReplacer.previewReplacements(content, config, tokens)
PreviewReplacementsCall ==
    /\ last.op = "none"
    /\ LET tokens == ExtractTokens(content)
       IN  last' = [op |-> "previewReplacements", tokens |-> tokens,
                    preview |-> PreviewReplacements(content, config,
                                                    [given |-> TRUE, list |-> tokens])]
    /\ UNCHANGED <<processor, content, config, files, cache, clock, call>>

Next ==
    \/ PreviewReplacementsCall
    \/ \E policy \in Policies : ReplaceTokensCall(policy)
    \/ \E strictMode, allowEmpty, warnOnUnused \in BOOLEAN :
          GenerateValidationReportCall(strictMode, allowEmpty, warnOnUnused)
    \/ ExtractTokensCall
    \/ \E strictMode, allowEmpty, warnOnUnused \in BOOLEAN :
          ValidateCall(strictMode, allowEmpty, warnOnUnused)
    \/ \E path \in ProbePaths \cup Range(ExtractTokens(content)) :
          GetNestedValueCall(path)

Spec == Init /\ [][Next]_vars

----------------------------------------------------------------------------
(* TokenExtractor.getCachedTokens and clearCache over a changing file system *)

\* The contents files are written with; the first two hold the same tokens.
FileTexts ==
    { <<"{", "{", "a", "}", "}">>,
      <<"{", "{", " ", "a", " ", "}", "}">>,
      <<"{", "{", "a", ".", "b", "}", "}">>,
      <<"x">> }

\* The number of writes the file system's clock counts.
MaxClock == 3

\* A write creates the file or changes its content; the clock has advanced
\* since the previous write, and the file's modification time is the clock's.
WriteFile(p, text) ==
    /\ clock < MaxClock
    /\ ~files[p].exists \/ files[p].content # text
    /\ clock' = clock + 1
    /\ files' = [files EXCEPT
                   ![p] = [exists |-> TRUE, content |-> text, mtime |-> clock + 1]]
    /\ last' = [op |-> "writeFile", path |-> p]
    /\ UNCHANGED <<processor, content, config, cache, call>>

DeleteFile(p) ==
    /\ files[p].exists
    /\ files' = [files EXCEPT ![p] = NoFile]
    /\ last' = [op |-> "unlink", path |-> p]
    /\ UNCHANGED <<processor, content, config, cache, clock, call>>

\* A cache check that never compares modification times.
CacheCheckAnyEntry(absolutePath) ==
    IF ~cache[absolutePath].has THEN "miss"
    ELSE IF ~files[absolutePath].exists THEN "gone"
    ELSE "hit"

\* The cache check of getCachedTokens: "hit" returns the cached tokens, "gone"
\* is the failed statSync; without an entry ("miss") and with an entry of
\* another modification time ("stale") the call goes on to read the file.
CacheCheck(absolutePath) ==
    IF ~cache[absolutePath].has THEN "miss"
    ELSE IF ~files[absolutePath].exists THEN "gone"
    ELSE IF files[absolutePath].mtime = cache[absolutePath].mtime THEN "hit"
    ELSE "stale"

\* served tells where the returned list came from: "cache", or the file, read
\* for want of an entry ("miss") or because the entry was stale ("stale").
Returned(templatePath, tokens, served) ==
    [op |-> "getCachedTokens", path |-> templatePath, ok |-> TRUE,
     tokens |-> tokens, served |-> served, error |-> ""]

Thrown(templatePath, error) ==
    [op |-> "getCachedTokens", path |-> templatePath, ok |-> FALSE,
     tokens |-> <<>>, served |-> "", error |-> error]

\* this.cache.set(absolutePath, {tokens, mtime: stats.mtime.getTime()})
CacheSet(absolutePath, tokens, mtime) ==
    [cache EXCEPT ![absolutePath] = [has |-> TRUE, tokens |-> tokens, mtime |-> mtime]]

\* A cache.delete that leaves the entry where it is.
CacheDeleteKeepsEntry(absolutePath) == cache

\* this.cache.delete(absolutePath)
CacheDelete(absolutePath) == [cache EXCEPT ![absolutePath] = NoEntry]

\* A whole getCachedTokens call, the file system not changing during it.
GetCachedTokens(templatePath) ==
    LET absolutePath == PathResolve(templatePath)
        check == CacheCheck(absolutePath)
        file == files[absolutePath]
    IN  /\ call.pc = "idle"
        /\ IF check = "hit"
           THEN /\ last' = Returned(templatePath, cache[absolutePath].tokens, "cache")
                /\ cache' = cache
           ELSE IF check = "gone"
           THEN /\ last' = Thrown(templatePath, "Template file not found")
                /\ cache' = CacheDelete(absolutePath)
           ELSE IF file.exists
           THEN /\ last' = Returned(templatePath, ExtractTokens(file.content), check)
                /\ cache' = CacheSet(absolutePath, ExtractTokens(file.content),
                                     file.mtime)
           ELSE /\ last' = Thrown(templatePath, "Error reading template file")
                /\ cache' = cache
        /\ UNCHANGED <<processor, content, config, files, clock, call>>

\* A clearCache that empties the cache whatever its argument.
ClearCacheEverything(templatePath) ==
    /\ call.pc = "idle"
    /\ cache' = [p \in AbsPaths |-> NoEntry]
    /\ last' = [op |-> "clearCache", path |-> templatePath]
    /\ UNCHANGED <<processor, content, config, files, clock, call>>

\* clearCache(templatePath): "" stands for the default null (and is as falsy).
ClearCache(templatePath) ==
    /\ call.pc = "idle"
    /\ cache' = IF templatePath # ""
                THEN CacheDelete(PathResolve(templatePath))
                ELSE [p \in AbsPaths |-> NoEntry]
    /\ last' = [op |-> "clearCache", path |-> templatePath]
    /\ UNCHANGED <<processor, content, config, files, clock, call>>

\* Array.from(this.cache.keys()), as the set of the keys.
CacheKeys(c) == {p \in AbsPaths : c[p].has}

\* getCacheStats(): {size: this.cache.size, files: the keys}.
GetCacheStats(c) == [size |-> Cardinality(CacheKeys(c)), files |-> CacheKeys(c)]

GetCacheStatsCall ==
    /\ call.pc = "idle"
    /\ last' = [op |-> "getCacheStats", stats |-> GetCacheStats(cache)]
    /\ UNCHANGED <<processor, content, config, files, cache, clock, call>>

InitCached ==
    /\ processor = TemplateProcessor(NoOptions)
    /\ content = <<>>
    /\ config = Undefined
    /\ last = [op |-> "none"]
    /\ InitFiles
    /\ InitCache

NextCached ==
    \/ \E p \in AbsPaths, text \in FileTexts : WriteFile(p, text)
    \/ \E p \in AbsPaths : DeleteFile(p)
    \/ \E templatePath \in InputPaths : GetCachedTokens(templatePath)
    \/ \E templatePath \in InputPaths \cup {""} : ClearCache(templatePath)
    \/ GetCacheStatsCall

\* Calls and file modifications one after the other.
SpecCache == InitCached /\ [][NextCached]_vars

----------------------------------------------------------------------------
(* getCachedTokens while another process writes the file: the call's three   *)
(* file system accesses (statSync, readFileSync, statSync) are separate steps *)

\* Lines 36-53: the cache check, with its statSync.
CallCheck(templatePath) ==
    LET absolutePath == PathResolve(templatePath)
        check == CacheCheck(absolutePath)
    IN  /\ call.pc = "idle"
        /\ IF check = "hit"
           THEN /\ last' = Returned(templatePath, cache[absolutePath].tokens, "cache")
                /\ UNCHANGED <<cache, call>>
           ELSE IF check = "gone"
           THEN /\ last' = Thrown(templatePath, "Template file not found")
                /\ cache' = CacheDelete(absolutePath)
                /\ UNCHANGED call
           ELSE /\ call' = [pc |-> "read", path |-> templatePath, check |-> check,
                            tokens |-> <<>>]
                /\ UNCHANGED <<cache, last>>
        /\ UNCHANGED <<processor, content, config, files, clock>>

\* Lines 57-58: readFileSync and extractTokens.
CallRead ==
    LET file == files[PathResolve(call.path)]
    IN  /\ call.pc = "read"
        /\ IF file.exists
           THEN /\ call' = [call EXCEPT !.pc = "stat",
                                        !.tokens = ExtractTokens(file.content)]
                /\ UNCHANGED last
           ELSE /\ call' = Idle
                /\ last' = Thrown(call.path, "Error reading template file")
        /\ UNCHANGED <<processor, content, config, files, cache, clock>>

\* Lines 61-67: statSync, cache.set and the return.
CallStat ==
    LET absolutePath == PathResolve(call.path)
        file == files[absolutePath]
    IN  /\ call.pc = "stat"
        /\ call' = Idle
        /\ IF file.exists
           THEN /\ cache' = CacheSet(absolutePath, call.tokens, file.mtime)
                /\ last' = Returned(call.path, call.tokens, call.check)
           ELSE /\ cache' = cache
                /\ last' = Thrown(call.path, "Error reading template file")
        /\ UNCHANGED <<processor, content, config, files, clock>>

NextRace ==
    \/ \E p \in AbsPaths, text \in FileTexts : WriteFile(p, text)
    \/ \E p \in AbsPaths : DeleteFile(p)
    \/ \E templatePath \in InputPaths : CallCheck(templatePath)
    \/ CallRead
    \/ CallStat
    \/ \E templatePath \in InputPaths \cup {""} : ClearCache(templatePath)

SpecRace == InitCached /\ [][NextRace]_vars

----------------------------------------------------------------------------
(* TemplateProcessor: processTemplate and processMultipleTemplates *)

\* getCachedTokens(templatePath) on the cache c and the files as they are: the
\* outcome and the cache after the call.
GetCachedTokensIn(c, templatePath) ==
    LET absolutePath == PathResolve(templatePath)
        entry == c[absolutePath]
        file == files[absolutePath]
    IN  IF entry.has /\ ~file.exists
        THEN [ok |-> FALSE, tokens |-> <<>>, error |-> "Template file not found",
              cache |-> [c EXCEPT ![absolutePath] = NoEntry]]
        ELSE IF entry.has /\ file.mtime = entry.mtime
        THEN [ok |-> TRUE, tokens |-> entry.tokens, error |-> "", cache |-> c]
        ELSE IF file.exists
        THEN [ok |-> TRUE, tokens |-> ExtractTokens(file.content), error |-> "",
              cache |-> [c EXCEPT ![absolutePath] =
                            [has |-> TRUE, tokens |-> ExtractTokens(file.content),
                             mtime |-> file.mtime]]]
        ELSE [ok |-> FALSE, tokens |-> <<>>, error |-> "Error reading template file",
              cache |-> c]

\* list.map(m => m.token)
MapToken(list) == [i \in 1..Len(list) |-> list[i].token]

\* The result of the catch block: no content, tokens or validation.
Failure(templatePath, kind, issues, opts) ==
    [success |-> FALSE,
     templatePath |-> templatePath,
     error |-> [kind |-> kind, issues |-> issues],
     metadata |-> [options |-> opts]]

\* What a processTemplate call leaves behind: the result object, the cache
\* after the call, the stages the call went through and, when it got that far,
\* the token list of step 2.
Processed(result, after, stages, extracted) ==
    [result |-> result, cache |-> after, stages |-> stages, extracted |-> extracted]

\* Steps 5 and 6 done: the error replaceTokens threw, caught at line 82, or
\* the comprehensive result.
ProcessResult(opts, templatePath, templateContent, tokens, after, validation, out) ==
    IF out.threw
    THEN Processed(Failure(templatePath, "replacement", out.error, opts), after,
                   <<"read", "extract", "validate", "replace">>, <<tokens>>)
    ELSE Processed([success |-> TRUE,
                    templatePath |-> templatePath,
                    content |-> out.text,
                    originalContent |-> templateContent,
                    tokens |-> [found |-> tokens,
                                total |-> Len(tokens),
                                missing |-> MapToken(validation.missing),
                                replaced |-> MapToken(validation.found)],
                    validation |-> validation,
                    metadata |-> [options |-> opts]],
                   after, <<"read", "extract", "validate", "replace">>, <<tokens>>)

\* Step 5, lines 56-59.
ProcessReplace(opts, templatePath, cfg, templateContent, tokens, after, validation) ==
    ProcessResult(opts, templatePath, templateContent, tokens, after, validation,
        ReplaceTokens(templateContent, cfg, [given |-> TRUE, list |-> tokens],
            [errorHandling |-> opts.errorHandling,
             missingTokenPlaceholder |-> opts.missingTokenPlaceholder]))

\* A step 4 that goes on to the replacement whatever the validation says.
ProcessValidatedAnyway(opts, templatePath, cfg, templateContent, tokens, after, validation) ==
    ProcessReplace(opts, templatePath, cfg, templateContent, tokens, after, validation)

\* Step 4, lines 51-53: an invalid validation under the policy fail throws.
ProcessValidated(opts, templatePath, cfg, templateContent, tokens, after, validation) ==
    IF ~validation.valid /\ opts.errorHandling = "fail"
    THEN Processed(Failure(templatePath, "validation", validation.errors, opts), after,
                   <<"read", "extract", "validate">>, <<tokens>>)
    ELSE ProcessReplace(opts, templatePath, cfg, templateContent, tokens, after,
                        validation)

\* Step 3, lines 44-48.
ProcessExtracted(opts, templatePath, cfg, templateContent, extraction) ==
    ProcessValidated(opts, templatePath, cfg, templateContent,
        extraction.tokens, extraction.cache,
        ValidateAgainstTokens(cfg, extraction.tokens,
            [strictMode |-> opts.strictValidation,
             allowEmpty |-> opts.allowEmptyValues,
             warnOnUnused |-> opts.warnOnUnused]))

\* Steps 1 and 2, lines 36-41: the file is read, which fails when there is no
\* file, and the tokens come from getCachedTokens or from extractTokens.  The
\* file having just been read, getCachedTokens finds it.
ProcessRead(opts, c, templatePath, cfg, file) ==
    IF ~file.exists
    THEN Processed(Failure(templatePath, "read", <<>>, opts), c, <<"read">>, <<>>)
    ELSE ProcessExtracted(opts, templatePath, cfg, file.content,
             IF opts.cacheTokens
             THEN GetCachedTokensIn(c, templatePath)
             ELSE [ok |-> TRUE, tokens |-> ExtractTokens(file.content),
                   error |-> "", cache |-> c])

\* processTemplate(templatePath, config, processingOptions) of a processor
\* whose options are thisOptions, on the cache c.  The function has no await
\* of its own: it runs from the read to the return without interruption.
ProcessTemplate(thisOptions, c, templatePath, cfg, processingOptions) ==
    ProcessRead(processingOptions @@ thisOptions, c, templatePath, cfg,
                files[PathResolve(templatePath)])

\* The configurations templates are processed with: {}, {a: "v"}, {a: ""}.
ProcessConfigs ==
    { Obj(<<>>),
      Obj(<<Prop(KeyA, Str(<<"v">>))>>),
      Obj(<<Prop(KeyA, Str(<<>>))>>) }

\* The options a call overrides.
ProcessingOptions ==
    [errorHandling : {"fail", "warn", "graceful"},
     strictValidation : BOOLEAN,
     cacheTokens : BOOLEAN]

\* The longest list of template paths of a batch.
MaxBatch == 3

\* The lists of at most n different paths.
RECURSIVE PathLists(_)
PathLists(n) ==
    IF n = 0 THEN {<<>>}
    ELSE LET shorter == PathLists(n - 1)
         IN  shorter \cup {Append(l, q) : l \in shorter, q \in InputPaths}

BatchInputs == {l \in PathLists(MaxBatch) : Cardinality(Range(l)) = Len(l)}

\* The outcome of a call stays in last until a file is deleted; the next call
\* starts after that, on the cache the calls before it left.
NoPendingResult ==
    last.op \in {"none", "unlink", "setErrorHandling", "updateOptions"}

\* The call's outcome recorded and its cache kept.
Completed(templatePath, processingOptions, done) ==
    /\ last' = [op |-> "processTemplate", path |-> templatePath,
                options |-> processingOptions @@ processor.options,
                given |-> processingOptions,
                result |-> done.result, stages |-> done.stages,
                extracted |-> done.extracted]
    /\ cache' = done.cache

\* processTemplate called on its own.
ProcessTemplateCall(templatePath, processingOptions) ==
    /\ call.pc = "idle"
    /\ NoPendingResult
    /\ Completed(templatePath, processingOptions,
                 ProcessTemplate(processor.options, cache, templatePath,
                                 config, processingOptions))
    /\ UNCHANGED <<processor, content, config, files, clock, call>>

\* processMultipleTemplates, lines 103-117: the results object.  seen keeps,
\* for every file that got as far as step 2, the token list extracted from it.
StartBatch(templatePaths, processingOptions) ==
    /\ call.pc = "idle"
    /\ NoPendingResult
    /\ call' = [pc |-> "batch",
                paths |-> templatePaths,
                options |-> processingOptions,
                next |-> 1,
                seen |-> <<>>,
                results |-> [success |-> TRUE,
                             processed |-> <<>>,
                             failed |-> <<>>,
                             summary |-> [total |-> Len(templatePaths),
                                          successful |-> 0,
                                          failed |-> 0],
                             aggregatedTokens |-> <<>>,
                             aggregatedValidation |-> [errors |-> <<>>,
                                                       warnings |-> <<>>]]]
    /\ last' = [op |-> "startBatch"]
    /\ UNCHANGED <<processor, content, config, files, cache, clock>>

\* tokens.forEach(token => set.add(token)): a Set keeps insertion order.
RECURSIVE AddAll(_, _)
AddAll(set, tokens) ==
    IF tokens = <<>> THEN set
    ELSE AddAll(IF Head(tokens) \in Range(set) THEN set ELSE Append(set, Head(tokens)),
                Tail(tokens))

\* A results object whose success flag follows the last file only.
RecordResultLastWins(results, result) ==
    IF result.success
    THEN [results EXCEPT
            !.success = TRUE,
            !.processed = Append(@, result),
            !.summary.successful = @ + 1,
            !.aggregatedTokens = AddAll(@, result.tokens.found),
            !.aggregatedValidation.errors = @ \o result.validation.errors,
            !.aggregatedValidation.warnings = @ \o result.validation.warnings]
    ELSE [results EXCEPT
            !.failed = Append(@, result),
            !.summary.failed = @ + 1,
            !.success = FALSE]

\* Lines 123-141: the result of one file entered into the results object.
RecordResult(results, result) ==
    IF result.success
    THEN [results EXCEPT
            !.processed = Append(@, result),
            !.summary.successful = @ + 1,
            !.aggregatedTokens = AddAll(@, result.tokens.found),
            !.aggregatedValidation.errors = @ \o result.validation.errors,
            !.aggregatedValidation.warnings = @ \o result.validation.warnings]
    ELSE [results EXCEPT
            !.failed = Append(@, result),
            !.summary.failed = @ + 1,
            !.success = FALSE]

\* A loop that leaves the batch at the first file that fails.
BatchRecordStopsAtFailure(done) ==
    /\ call' = [call EXCEPT
                   !.next = IF done.result.success THEN @ + 1 ELSE Len(call.paths) + 1,
                   !.seen = @ \o done.extracted,
                   !.results = RecordResult(@, done.result)]
    /\ cache' = done.cache

\* The result of the awaited processTemplate entered, and on to the next path.
BatchRecord(done) ==
    /\ call' = [call EXCEPT
                   !.next = @ + 1,
                   !.seen = @ \o done.extracted,
                   !.results = RecordResult(@, done.result)]
    /\ cache' = done.cache

\* One iteration of the loop of processMultipleTemplates: the awaited
\* processTemplate of the next path and the entry of its result.  The catch of
\* line 142 is never reached, processTemplate catching every error itself.
BatchStep ==
    /\ call.pc = "batch"
    /\ call.next <= Len(call.paths)
    /\ BatchRecord(ProcessTemplate(processor.options, cache,
                                   call.paths[call.next], config, call.options))
    /\ UNCHANGED <<processor, content, config, last, files, clock>>

\* Lines 154-156: the loop is over, the batch returns its results.
BatchReturn ==
    /\ call.pc = "batch"
    /\ call.next > Len(call.paths)
    /\ last' = [op |-> "processMultipleTemplates", paths |-> call.paths,
                options |-> call.options @@ processor.options,
                results |-> call.results, seen |-> call.seen]
    /\ call' = Idle
    /\ UNCHANGED <<processor, content, config, files, cache, clock>>

\* The contents of the template files of a batch: one with the token a, one
\* with the tokens a and a.b.
ProcessTexts ==
    { <<"{", "{", "a", "}", "}">>,
      <<"{", "{", "a", "}", "}", "{", "{", "a", ".", "b", "}", "}">> }

\* The template files at the start: each path has no file or a file written
\* at time 1.  While templates are processed files may be deleted, between two
\* calls or between two files of a batch.
InitProcess ==
    /\ processor = TemplateProcessor(NoOptions)
    /\ content = <<>>
    /\ config \in ProcessConfigs
    /\ last = [op |-> "none"]
    /\ files \in [AbsPaths ->
                     {NoFile} \cup {[exists |-> TRUE, content |-> text, mtime |-> 1] :
                                       text \in ProcessTexts}]
    /\ clock = 1
    /\ InitCache

NextProcess ==
    \/ \E q \in AbsPaths : DeleteFile(q)
    \/ \E templatePath \in InputPaths, processingOptions \in ProcessingOptions :
          ProcessTemplateCall(templatePath, processingOptions)
    \/ \E templatePaths \in BatchInputs, processingOptions \in ProcessingOptions :
          StartBatch(templatePaths, processingOptions)
    \/ BatchStep
    \/ BatchReturn

SpecProcess == InitProcess /\ [][NextProcess]_vars

----------------------------------------------------------------------------
(* TemplateProcessor: the options of a processor *)

\* A setErrorHandling that takes any strategy.
SetErrorHandlingUnchecked(strategy) ==
    /\ call.pc = "idle"
    /\ processor' = [processor EXCEPT !.options.errorHandling = strategy]
    /\ last' = [op |-> "setErrorHandling", strategy |-> strategy, threw |-> FALSE]
    /\ UNCHANGED <<content, config, files, cache, clock, call>>

\* setErrorHandling(strategy), lines 198-204.
SetErrorHandling(strategy) ==
    /\ call.pc = "idle"
    /\ IF strategy \in {"fail", "warn", "graceful"}
       THEN /\ processor' = [processor EXCEPT !.options.errorHandling = strategy]
            /\ last' = [op |-> "setErrorHandling", strategy |-> strategy,
                        threw |-> FALSE]
       ELSE /\ processor' = processor
            /\ last' = [op |-> "setErrorHandling", strategy |-> strategy,
                        threw |-> TRUE]
    /\ UNCHANGED <<content, config, files, cache, clock, call>>

\* updateOptions(newOptions), lines 210-212.
UpdateOptions(newOptions) ==
    /\ call.pc = "idle"
    /\ processor' = [options |-> newOptions @@ processor.options]
    /\ last' = [op |-> "updateOptions", newOptions |-> newOptions]
    /\ UNCHANGED <<content, config, files, cache, clock, call>>

\* The options processors are constructed with, the options updateOptions
\* is given and the options of one processTemplate call: none, a value of
\* errorHandling or strict validation.
OptionObjects ==
    {NoOptions} \cup {[errorHandling |-> policy] : policy \in Policies}
                \cup {[strictValidation |-> TRUE]}

\* The templates of the processor: the file /w/a.html with the token a or
\* the tokens a and a.b, no other file.
InitOptions ==
    /\ processor \in {TemplateProcessor(options) : options \in OptionObjects}
    /\ content = <<>>
    /\ config \in ProcessConfigs
    /\ last = [op |-> "none"]
    /\ files \in {[p \in AbsPaths |->
                      IF p = "/w/a.html"
                      THEN [exists |-> TRUE, content |-> text, mtime |-> 1]
                      ELSE NoFile] : text \in ProcessTexts}
    /\ clock = 1
    /\ InitCache

\* A processor whose options are set and updated between processTemplate
\* calls.
NextOptions ==
    \/ \E strategy \in Policies : SetErrorHandling(strategy)
    \/ \E newOptions \in OptionObjects : UpdateOptions(newOptions)
    \/ \E templatePath \in InputPaths, processingOptions \in OptionObjects :
          ProcessTemplateCall(templatePath, processingOptions)

SpecOptions == InitOptions /\ [][NextOptions]_vars

----------------------------------------------------------------------------
(* TokenExtractor.extractFromMultipleFiles *)

\* results[templatePath] = value: the entry of the key is replaced where it
\* stands, or added after the others.
SetEntry(results, templatePath, value) ==
    IF \E i \in 1..Len(results) : results[i].path = templatePath
    THEN [i \in 1..Len(results) |->
            IF results[i].path = templatePath THEN value ELSE results[i]]
    ELSE Append(results, value)

\* The entry of a path: its token list, or {error: error.message}.
EntryOf(templatePath, got) ==
    [path |-> templatePath, isError |-> ~got.ok, tokens |-> got.tokens,
     error |-> got.error]

\* A loop body without the try: the error of a file leaves no entry.
NextEntryDropsErrors(results, templatePath, got) ==
    IF got.ok THEN SetEntry(results, templatePath, EntryOf(templatePath, got))
    ELSE results

\* Lines 82-86: the entry of one path.
NextEntry(results, templatePath, got) ==
    SetEntry(results, templatePath, EntryOf(templatePath, got))

\* The loop of extractFromMultipleFiles from the results and the cache so
\* far: the mapping returned, as its entries in insertion order, and the
\* cache after the call.  The loop is synchronous.
RECURSIVE ExtractLoop(_, _, _)
ExtractNext(results, templatePaths, got) ==
    ExtractLoop(NextEntry(results, Head(templatePaths), got), got.cache,
                Tail(templatePaths))

ExtractLoop(results, c, templatePaths) ==
    IF templatePaths = <<>> THEN [results |-> results, cache |-> c]
    ELSE ExtractNext(results, templatePaths,
                     GetCachedTokensIn(c, Head(templatePaths)))

ExtractFromMultipleFiles(c, templatePaths) == ExtractLoop(<<>>, c, templatePaths)

\* The lists of paths extractFromMultipleFiles is called with: at most
\* MaxBatch paths, the same path possibly more than once.
ExtractInputs == PathLists(MaxBatch)

Extracted(templatePaths, out) ==
    /\ last' = [op |-> "extractFromMultipleFiles", paths |-> templatePaths,
                results |-> out.results]
    /\ cache' = out.cache

ExtractFromMultipleFilesCall(templatePaths) ==
    /\ call.pc = "idle"
    /\ Extracted(templatePaths, ExtractFromMultipleFiles(cache, templatePaths))
    /\ UNCHANGED <<processor, content, config, files, clock, call>>

\* Calls of getCachedTokens, extractFromMultipleFiles and clearCache and file
\* modifications one after the other.
NextExtract ==
    \/ NextCached
    \/ \E templatePaths \in ExtractInputs : ExtractFromMultipleFilesCall(templatePaths)

SpecExtract == InitCached /\ [][NextExtract]_vars

----------------------------------------------------------------------------
(* config-system.js: applyDefaults, validateConfig and processConfig *)

\* The property names of a client configuration.
Key ==
    [client_name |-> <<"c", "l", "i", "e", "n", "t", "_", "n", "a", "m", "e">>,
     date |-> <<"d", "a", "t", "e">>,
     payment |-> <<"p", "a", "y", "m", "e", "n", "t">>,
     amount |-> <<"a", "m", "o", "u", "n", "t">>,
     description |-> <<"d", "e", "s", "c", "r", "i", "p", "t", "i", "o", "n">>,
     provider |-> <<"p", "r", "o", "v", "i", "d", "e", "r">>,
     link |-> <<"l", "i", "n", "k">>]

\* DEFAULT_CONFIG; its date is the day the module was loaded, written "today".
DEFAULT_CONFIG ==
    Obj(<<Prop(Key.client_name, Str(<<>>)),
          Prop(Key.date, Str(<<"t", "o", "d", "a", "y">>)),
          Prop(Key.payment,
               Obj(<<Prop(Key.amount, Str(<<"P", "a", "y", " ", "$", "1", ",", "0", "0", "0">>)),
                     Prop(Key.description, Str(<<"D", "e", "p", "o", "s", "i", "t", " ", "t", "o", " ", "S", "t", "a", "r", "t">>)),
                     Prop(Key.provider, Str(<<"B", "o", "n", "s", "a", "i">>))>>))>>)

\* a || b
Or(a, b) == IF Truthy(a) THEN a ELSE b

\* !value || value.trim() === '', for the strings configurations hold.
Blank(value) == ~Truthy(value) \/ Trim(value.s) = <<>>

\* applyDefaults(config): the object returned.  result is a copy of the own
\* properties of config (line 26), so what is set is set in the copy.
ApplyDefaults(cfg) ==
    LET dated == IF Blank(GetProp(cfg, Key.date))
                 THEN SetProp(cfg, Key.date, GetProp(DEFAULT_CONFIG, Key.date))
                 ELSE cfg
        payment == GetProp(dated, Key.payment)
        defaults == GetProp(DEFAULT_CONFIG, Key.payment)
    IN  SetProp(dated, Key.payment,
            IF ~Truthy(payment) THEN defaults
            ELSE Obj(<<Prop(Key.amount,
                            Or(GetProp(payment, Key.amount),
                               GetProp(defaults, Key.amount))),
                       Prop(Key.description,
                            Or(GetProp(payment, Key.description),
                               GetProp(defaults, Key.description))),
                       Prop(Key.provider,
                            Or(GetProp(payment, Key.provider),
                               GetProp(defaults, Key.provider)))>>))

\* validateConfig(config): the fields its error messages ask for.
ValidateConfig(cfg) ==
    LET payment == GetProp(cfg, Key.payment)
        Required(obj, key, name) == IF Blank(GetProp(obj, key)) THEN <<name>> ELSE <<>>
    IN  Required(cfg, Key.client_name, "client_name")
        \o (IF ~Truthy(payment) THEN <<"payment", "payment example">>
            ELSE Required(payment, Key.amount, "payment.amount")
                 \o Required(payment, Key.description, "payment.description")
                 \o Required(payment, Key.provider, "payment.provider"))

\* processConfig(rawConfig): the configuration with defaults, or the error
\* thrown for the fields validateConfig asks for.
ProcessConfig(rawConfig) ==
    LET configWithDefaults == ApplyDefaults(rawConfig)
        errors == ValidateConfig(configWithDefaults)
    IN  IF errors # <<>>
        THEN [threw |-> TRUE, errors |-> errors, config |-> Undefined]
        ELSE [threw |-> FALSE, errors |-> <<>>, config |-> configWithDefaults]

\* An object literal of the properties given, those with no value left out.
ObjectOf(props) == Obj(SelectSeq(props, LAMBDA p : p.v.t # "undefined"))

\* The raw configurations: every field absent, empty, blank or filled, the
\* payment object absent or with a link or without.
RawConfigs ==
    LET values == {Undefined, Str(<<>>), Str(<<" ">>), Str(<<"v">>)}
        payments ==
            {Undefined} \cup
            {ObjectOf(<<Prop(Key.amount, amount),
                        Prop(Key.description, description),
                        Prop(Key.provider, provider),
                        Prop(Key.link, link)>>) :
                amount \in values, description \in values \ {Str(<<" ">>)},
                provider \in values \ {Str(<<" ">>)},
                link \in {Undefined, Str(<<"u">>)}}
    IN  {ObjectOf(<<Prop(Key.client_name, name),
                    Prop(Key.date, date),
                    Prop(Key.payment, payment)>>) :
            name \in values \ {Str(<<" ">>)}, date \in values,
            payment \in payments}

ApplyDefaultsCall ==
    /\ last.op = "none"
    /\ last' = [op |-> "applyDefaults", threw |-> FALSE,
                config |-> ApplyDefaults(config)]
    /\ UNCHANGED <<processor, content, config, files, cache, clock, call>>

ValidateConfigCall ==
    /\ last.op = "none"
    /\ last' = [op |-> "validateConfig", errors |-> ValidateConfig(config)]
    /\ UNCHANGED <<processor, content, config, files, cache, clock, call>>

ProcessConfigCall ==
    /\ last.op = "none"
    /\ last' = [op |-> "processConfig"] @@ ProcessConfig(config)
    /\ UNCHANGED <<processor, content, config, files, cache, clock, call>>

InitConfig ==
    /\ processor = TemplateProcessor(NoOptions)
    /\ content = <<>>
    /\ config \in RawConfigs
    /\ last = [op |-> "none"]
    /\ InitFiles
    /\ InitCache

NextConfig ==
    \/ ApplyDefaultsCall
    \/ ValidateConfigCall
    \/ ProcessConfigCall

SpecConfig == InitConfig /\ [][NextConfig]_vars

----------------------------------------------------------------------------
(* serve.js: the request handler of createServer *)

\* The server of the template d: projectRoot is /p, rootDir the template's
\* temp directory /p/temp/d; the directories that exist, among them the temp
\* directory d2 of another template.
Server ==
    [projectRoot |-> <<"/", "p">>,
     rootDir |-> <<"/", "p", "/", "t", "e", "m", "p", "/", "d">>,
     assets |-> <<"/", "a", "s", "s", "e", "t", "s", "/">>,
     directories |-> {<<"/", "p">>,
                      <<"/", "p", "/", "t", "e", "m", "p">>,
                      <<"/", "p", "/", "t", "e", "m", "p", "/", "d">>,
                      <<"/", "p", "/", "t", "e", "m", "p", "/", "d", "2">>,
                      <<"/", "p", "/", "a", "s", "s", "e", "t", "s">>,
                      <<"/", "p", "/", "c", "o", "n", "f", "i", "g", "s">>}]

\* s.split(sep)
RECURSIVE SplitOn(_, _)
SplitOn(s, sep) ==
    LET at == {i \in 1..(Len(s) - Len(sep) + 1) :
                 SubSeq(s, i, i + Len(sep) - 1) = sep}
    IN  IF at = {} THEN <<s>>
        ELSE LET i == CHOOSE j \in at : \A k \in at : j <= k
             IN  <<SubSeq(s, 1, i - 1)>>
                 \o SplitOn(SubSeq(s, i + Len(sep), Len(s)), sep)

\* path.join of an absolute path and a relative one: the two are joined by
\* "/" (an empty second argument is ignored) and the result is normalised,
\* "." and empty segments dropped, ".." taking the segment before it away
\* (none at the root); a trailing "/" is kept.
PathJoin(first, second) ==
    LET joined == IF second = <<>> THEN first ELSE first \o <<"/">> \o second
        RECURSIVE Resolve(_, _)
        Resolve(stack, segments) ==
            IF segments = <<>> THEN stack
            ELSE Resolve(
                   CASE Head(segments) \in {<<>>, <<".">>} -> stack
                     [] Head(segments) = <<".", ".">> ->
                          IF stack = <<>> THEN stack
                          ELSE SubSeq(stack, 1, Len(stack) - 1)
                     [] OTHER -> Append(stack, Head(segments)),
                   Tail(segments))
        RECURSIVE Render(_)
        Render(stack) ==
            IF stack = <<>> THEN <<>>
            ELSE <<"/">> \o Head(stack) \o Render(Tail(stack))
        resolved == Render(Resolve(<<>>, SplitOn(joined, <<"/">>)))
    IN  IF resolved = <<>> THEN <<"/">>
        ELSE IF joined[Len(joined)] = "/" THEN resolved \o <<"/">>
        ELSE resolved

\* The request URLs: the index, slides that exist or not, paths with ".."
\* segments, asset paths, and paths into the directories beside rootDir.
RequestUrls ==
    { <<"/">>,
      <<"/", "i", "n", "d", "e", "x", ".", "h", "t", "m", "l">>,
      <<"/", "s", ".", "h", "t", "m", "l">>,
      <<"/", "n", "o", "t", "h", "i", "n", "g", ".", "h", "t", "m", "l">>,
      <<"/", ".", ".", "/", "d", "2", "/", "s", ".", "h", "t", "m", "l">>,
      <<"/", ".", ".", "/", ".", ".", "/", "c", "o", "n", "f", "i", "g", "s", "/", "c", ".", "j", "s", "o", "n">>,
      <<"/", "a", "s", "s", "e", "t", "s", "/", "l", "o", "g", "o", ".", "p", "n", "g">>,
      <<"/", "a", "s", "s", "e", "t", "s", "/", "n", "o", ".", "p", "n", "g">>,
      <<"/", "a", "s", "s", "e", "t", "s", "/">>,
      <<"/", "a", "s", "s", "e", "t", "s", "/", ".", ".", "/", "c", "o", "n", "f", "i", "g", "s", "/", "c", ".", "j", "s", "o", "n">>,
      <<"/", "x", "/", "a", "s", "s", "e", "t", "s", "/", "l", "o", "g", "o", ".", "p", "n", "g">>,
      <<"/", "x", "/", ".", ".", "/", "s", ".", "h", "t", "m", "l">> }

\* Lines 44-54: the file path of a request.
FilePath(url) ==
    IF Len(SplitOn(url, Server.assets)) > 1
    THEN PathJoin(PathJoin(Server.projectRoot, <<"a", "s", "s", "e", "t", "s">>),
                  SplitOn(url, Server.assets)[2])
    ELSE PathJoin(Server.rootDir,
                  IF url = <<"/">> THEN <<"i", "n", "d", "e", "x", ".", "h", "t", "m", "l">> ELSE url)

\* The request handler up to fs.readFile, lines 43-86: the 403 of the
\* security check, the 404 of existsSync, or the file is being read.
\* responses lists the status of every writeHead of the request.
Request(url) ==
    LET filePath == FilePath(url)
        isAsset == Len(SplitOn(url, Server.assets)) > 1
        prefix == SubSeq(filePath, 1, Len(Server.rootDir))
        bare == IF filePath[Len(filePath)] = "/" /\ Len(filePath) > 1
                THEN SubSeq(filePath, 1, Len(filePath) - 1)
                ELSE filePath
        exists == \/ bare \in Server.directories
                  \/ filePath \in files
        answer == IF ~isAsset /\ prefix # Server.rootDir THEN <<403>>
                  ELSE IF ~exists THEN <<404>>
                  ELSE <<>>
    IN  /\ call.pc = "idle"
        /\ last' = [op |-> "request", url |-> url, filePath |-> filePath,
                    responses |-> answer]
        /\ call' = IF answer = <<>>
                   THEN [pc |-> "readFile", filePath |-> filePath]
                   ELSE Idle
        /\ UNCHANGED <<processor, content, config, files, cache, clock>>

\* The callback of fs.readFile, lines 86-95: 500 for a directory, 200 and
\* the data for a file.
ReadFileCallback ==
    /\ call.pc = "readFile"
    /\ last' = [last EXCEPT !.responses =
                   Append(@, IF call.filePath \in files THEN 200 ELSE 500)]
    /\ call' = Idle
    /\ UNCHANGED <<processor, content, config, files, cache, clock>>

\* The files on disk: any of a slide and the index in rootDir, a slide of the
\* other template, an asset and a configuration file of the project.
InitServer ==
    /\ processor = TemplateProcessor(NoOptions)
    /\ content = <<>>
    /\ config = Undefined
    /\ last = [op |-> "none"]
    /\ files \in SUBSET { <<"/", "p", "/", "t", "e", "m", "p", "/", "d", "/", "i", "n", "d", "e", "x", ".", "h", "t", "m", "l">>,
                        <<"/", "p", "/", "t", "e", "m", "p", "/", "d", "/", "s", ".", "h", "t", "m", "l">>,
                        <<"/", "p", "/", "t", "e", "m", "p", "/", "d", "2", "/", "s", ".", "h", "t", "m", "l">>,
                        <<"/", "p", "/", "a", "s", "s", "e", "t", "s", "/", "l", "o", "g", "o", ".", "p", "n", "g">>,
                        <<"/", "p", "/", "c", "o", "n", "f", "i", "g", "s", "/", "c", ".", "j", "s", "o", "n">> }
    /\ clock = 0
    /\ InitCache

NextServer ==
    \/ \E url \in RequestUrls : Request(url)
    \/ ReadFileCallback

SpecServer == InitServer /\ [][NextServer]_vars

----------------------------------------------------------------------------
(* build.js: buildClient *)

\* buildClient(templateName, configFile) up to its first await, line 18:
\* customizeTemplate is started.  started lists the steps started so far.
BuildClient(templateName, configFile) ==
    /\ call.pc = "idle"
    /\ call' = [pc |-> "customize", templateName |-> templateName,
                configFile |-> configFile, started |-> <<"customize">>,
                customize |-> [threw |-> FALSE, success |-> FALSE, processed |-> 0]]
    /\ UNCHANGED <<processor, content, config, last, files, cache, clock>>

\* A build that goes on to the PDFs whatever customizeTemplate returned.
CustomizeSettlesGoesOn(threw, success, processed) ==
    LET settled == [threw |-> threw, success |-> ~threw /\ success,
                    processed |-> IF ~threw /\ success THEN processed ELSE 0]
    IN  /\ call.pc = "customize"
        /\ IF ~threw
           THEN /\ call' = [call EXCEPT !.pc = "pdf", !.customize = settled,
                                        !.started = Append(@, "pdf")]
                /\ UNCHANGED last
           ELSE /\ call' = Idle
                /\ last' = [op |-> "buildClient",
                            templateName |-> call.templateName,
                            configFile |-> call.configFile,
                            started |-> call.started,
                            customize |-> settled,
                            pdf |-> [threw |-> FALSE, success |-> FALSE],
                            result |-> [success |-> FALSE, error |-> "thrown"]]
        /\ UNCHANGED <<processor, content, config, files, cache, clock>>

\* The awaited customizeTemplate settles, lines 18-28: it threw, or returned
\* a result with success false, and the catch of line 46 returns the failure;
\* or it returned success (and the number of templates processed) and
\* generatePDF is started.
CustomizeSettles(threw, success, processed) ==
    LET settled == [threw |-> threw, success |-> ~threw /\ success,
                    processed |-> IF ~threw /\ success THEN processed ELSE 0]
    IN  /\ call.pc = "customize"
        /\ IF settled.success
           THEN /\ call' = [call EXCEPT !.pc = "pdf", !.customize = settled,
                                        !.started = Append(@, "pdf")]
                /\ UNCHANGED last
           ELSE /\ call' = Idle
                /\ last' = [op |-> "buildClient",
                            templateName |-> call.templateName,
                            configFile |-> call.configFile,
                            started |-> call.started,
                            customize |-> settled,
                            pdf |-> [threw |-> FALSE, success |-> FALSE],
                            result |-> [success |-> FALSE,
                                        error |-> IF threw THEN "thrown"
                                                  ELSE "Customization failed"]]
        /\ UNCHANGED <<processor, content, config, files, cache, clock>>

\* The awaited generatePDF settles, lines 28-52.
PdfSettles(threw, success) ==
    LET settled == [threw |-> threw, success |-> ~threw /\ success]
    IN  /\ call.pc = "pdf"
        /\ call' = Idle
        /\ last' = [op |-> "buildClient",
                    templateName |-> call.templateName,
                    configFile |-> call.configFile,
                    started |-> call.started,
                    customize |-> call.customize,
                    pdf |-> settled,
                    result |-> IF settled.success
                               THEN [success |-> TRUE, error |-> ""]
                               ELSE [success |-> FALSE,
                                     error |-> IF threw THEN "thrown"
                                               ELSE "PDF generation failed"]]
        /\ UNCHANGED <<processor, content, config, files, cache, clock>>

InitBuild ==
    /\ processor = TemplateProcessor(NoOptions)
    /\ content = <<>>
    /\ config = Undefined
    /\ last = [op |-> "none"]
    /\ InitFiles
    /\ InitCache

\* Builds one after the other, of two templates with two configurations.
NextBuild ==
    \/ \E templateName \in {"discovery", "agreement"},
          configFile \in {"john-boros", "configs/maria.json"} :
          BuildClient(templateName, configFile)
    \/ \E threw, success \in BOOLEAN, processed \in {0, 1, 2} :
          CustomizeSettles(threw, success, processed)
    \/ \E threw, success \in BOOLEAN : PdfSettles(threw, success)

SpecBuild == InitBuild /\ [][NextBuild]_vars

----------------------------------------------------------------------------
(* The extractor's cache: claims C1 and C2 *)

\* C1: after any sequence of file writes (each changing content and
\* modification time), clearCache calls and getCachedTokens calls, a successful
\* getCachedTokens(p) returns extractTokens of the current content of p; a list
\* is served from the cache only when the stored modification time is the
\* file's, and after the call the entry of p holds the returned list with the
\* file's current modification time.
C1_CachedTokensAreCurrent ==
    (last.op = "getCachedTokens" /\ last.ok) =>
        LET absolutePath == PathResolve(last.path)
        IN  /\ files[absolutePath].exists
            /\ last.tokens = ExtractTokens(files[absolutePath].content)
            /\ cache[absolutePath] =
                  [has |-> TRUE, tokens |-> last.tokens,
                   mtime |-> files[absolutePath].mtime]

\* A call that found an entry of an older modification time and read the
\* file again.
C1_Witness ==
    /\ last.op = "getCachedTokens"
    /\ last.ok
    /\ last.served = "stale"
    /\ last.tokens = <<>>

\* C2: the cache never holds a token list of older content with the
\* modification time of the newer content: an entry whose modification time
\* is the file's holds the tokens of the file's content.
C2_NoStaleEntry ==
    \A p \in AbsPaths :
        (cache[p].has /\ files[p].exists /\ cache[p].mtime = files[p].mtime)
            => cache[p].tokens = ExtractTokens(files[p].content)

----------------------------------------------------------------------------
(* The missing-token policy: claims C3, C4 and C5 *)

\* The tokens of a list that do not resolve to a non-null value.
MissingTokens(tokens) ==
    SelectSeq(tokens, LAMBDA t : GetNestedValue(config, t).t \in {"undefined", "null"})

TokensOf(warnings) == [i \in 1..Len(warnings) |-> warnings[i].token]

TokensArg(tokens) == [given |-> TRUE, list |-> tokens]

\* C3: under policy fail, replaceTokens throws exactly when a token is
\* missing, the error names every missing token of the pass, and without a
\* missing token every token is substituted and the text returned.
C3_FailThrowsAllMissing ==
    (last.op = "replaceTokens" /\ last.options.errorHandling = "fail") =>
        LET missing == MissingTokens(last.tokens)
        IN  /\ last.out.threw <=> missing # <<>>
            /\ last.out.threw => TokensOf(last.out.error) = missing
            /\ ~last.out.threw =>
                  /\ last.out.substituted = last.tokens
                  /\ last.out.console = <<>>

\* A failed replacement with more than one missing token.
C3_Witness ==
    /\ last.op = "replaceTokens"
    /\ last.options.errorHandling = "fail"
    /\ last.out.threw
    /\ Len(last.out.error) >= 2

\* C4: under policy graceful, replaceTokens returns the text it returns under
\* warn, never throws and prints no warning, while warn prints one whenever a
\* token is missing; "x{{a}}" with config {} gives "x[MISSING]".
C4_GracefulLikeWarn ==
    (last.op = "replaceTokens" /\ last.options.errorHandling = "graceful") =>
        LET warn == ReplaceTokens(content, config, TokensArg(last.tokens),
                                  [errorHandling |-> "warn"])
        IN  /\ ~last.out.threw
            /\ ~warn.threw
            /\ last.out.text = warn.text
            /\ last.out.console = <<>>
            /\ MissingTokens(last.tokens) # <<>> => warn.console # <<>>
            /\ (content = <<"x", "{", "{", "a", "}", "}">> /\ config = Obj(<<>>))
                  => last.out.text = <<"x">> \o MissingPlaceholder

\* The graceful replacement of "x{{a}}" with config {}.
C4_Witness ==
    /\ last.op = "replaceTokens"
    /\ last.options.errorHandling = "graceful"
    /\ content = <<"x", "{", "{", "a", "}", "}">>
    /\ config = Obj(<<>>)
    /\ last.out.text = <<"x">> \o MissingPlaceholder

\* The number of markers of the token in the text: the matches of the
\* extractor's pattern whose trimmed name is the token.
MarkerCount(text, token) ==
    LET matches == ExecAll(text, 1)
    IN  Cardinality({i \in 1..Len(matches) : Trim(matches[i]) = token})

\* C5 as claimed: under policy warn a missing token whose marker occurs k
\* times in the text produces k warnings.
C5_WarnPerOccurrence ==
    (last.op = "replaceTokens" /\ last.options.errorHandling = "warn") =>
        \A t \in Range(MissingTokens(last.tokens)) :
            Cardinality({i \in 1..Len(last.out.console) : last.out.console[i].token = t})
                = MarkerCount(content, t)

\* C5 as amended: under policy warn every missing token is reported by exactly
\* one warning, in the order of the token list, however often its marker
\* occurs; processing continues past each missing token (each is replaced by
\* the placeholder) and the text is returned.
C5_WarnOncePerToken ==
    (last.op = "replaceTokens" /\ last.options.errorHandling = "warn") =>
        /\ ~last.out.threw
        /\ TokensOf(last.out.console) = MissingTokens(last.tokens)
        /\ last.out.placed = MissingTokens(last.tokens)

\* The missing token a occurs twice and is reported once.
C5_Witness ==
    /\ last.op = "replaceTokens"
    /\ last.options.errorHandling = "warn"
    /\ content = <<"{", "{", "a", "}", "}", "{", "{", " ", "a", " ", "}", "}">>
    /\ config = Obj(<<>>)
    /\ MarkerCount(content, KeyA) = 2
    /\ Len(last.out.console) = 1
    /\ last.out.text = MissingPlaceholder \o MissingPlaceholder

----------------------------------------------------------------------------
(* Substitution: claims C6, C7 and C8 *)

\* The pattern of exactly the token's name.
LiteralAtoms(token) == [i \in 1..Len(token) |-> [any |-> FALSE, c |-> token[i]]]

\* Every occurrence of the pattern in s replaced by the value, character for
\* character.
RECURSIVE VerbatimFrom(_, _, _, _)
VerbatimFrom(s, atoms, value, i) ==
    IF i > Len(s) THEN <<>>
    ELSE LET e == RegexMatchEnd(atoms, s, i)
         IN  IF e = 0 THEN <<s[i]>> \o VerbatimFrom(s, atoms, value, i + 1)
             ELSE value \o VerbatimFrom(s, atoms, value, e + 1)

\* The text with the markers of exactly this token ("{{", optional whitespace,
\* the name, optional whitespace, "}}") replaced by String(value) as it is, or
\* by the placeholder when the token is missing and the policy replaces it.
ExactStep(text, token, opts) ==
    LET value == GetNestedValue(config, token)
    IN  IF value.t \notin {"undefined", "null"}
        THEN VerbatimFrom(text, LiteralAtoms(token), StringOf(value), 1)
        ELSE IF opts.errorHandling \in {"warn", "graceful"}
        THEN VerbatimFrom(text, LiteralAtoms(token), opts.missingTokenPlaceholder, 1)
        ELSE text

RECURSIVE ExactLoop(_, _, _)
ExactLoop(text, tokens, opts) ==
    IF tokens = <<>> THEN text
    ELSE ExactLoop(ExactStep(text, Head(tokens), opts), Tail(tokens), opts)

\* C6: the text replaceTokens returns is the input with every occurrence of a
\* token's own marker replaced by String(value), verbatim, and nothing else
\* changed: the marker of another token name is never replaced by this
\* token's value.
C6_ExactMarkersVerbatim ==
    (last.op = "replaceTokens" /\ ~last.out.threw) =>
        last.out.text =
            ExactLoop(content, last.tokens, last.options @@ DefaultReplaceOptions)

\* C7: with the tokens extracted from the text and a policy other than fail,
\* extractTokens of the output of replaceTokens holds none of the tokens
\* extracted from the text, whatever the configured values are.
C7_RoundTrip ==
    (last.op = "replaceTokens" /\ last.options.errorHandling \in {"warn", "graceful"}) =>
        Range(ExtractTokens(last.out.text)) \cap Range(last.tokens) = {}

\* C8: for a policy other than fail and either setting of allowEmpty, the
\* tokens validateAgainstTokens reports as found are the tokens replaceTokens
\* substitutes with their configured value.
C8_FoundIsSubstituted ==
    last.op = "validateAgainstTokens" =>
        \A policy \in {"warn", "graceful"} :
            {last.report.found[i].token : i \in 1..Len(last.report.found)}
                = Range(ReplaceTokens(content, config, TokensArg(last.tokens),
                                      [errorHandling |-> policy]).substituted)

----------------------------------------------------------------------------
(* Dotted-path resolution: claims C9 and C10 *)

\* obj.hasOwnProperty(key): the length of an array is an own property.
HasOwnProperty(v, key) == HasOwn(v, key) \/ (v.t = "array" /\ key = LengthKey)

\* The value at the path, one segment at a time: missing as soon as the value
\* reached is no object or has no property of the segment's name.
RECURSIVE OwnPath(_, _)
OwnPath(v, parts) ==
    IF parts = <<>> THEN v
    ELSE IF v.t \notin {"object", "array"} THEN Undefined
    ELSE IF ~HasOwnProperty(v, Head(parts)) THEN Undefined
    ELSE OwnPath(GetProp(v, Head(parts)), Tail(parts))

\* C9: getNestedValue returns the value at the dotted path and yields
\* undefined as soon as an intermediate value is not an object, a segment key
\* is absent, or the config is not an object; a path without a dot is a direct
\* top-level lookup.
C9_NestedValueIsTotal ==
    last.op = "getNestedValue" => last.value = OwnPath(config, SplitDot(last.path))

\* A proper prefix of the path leads to an array.
RECURSIVE ThroughArray(_, _)
ThroughArray(v, parts) ==
    /\ parts # <<>>
    /\ \/ v.t = "array"
       \/ /\ v.t = "object"
          /\ HasOwn(v, Head(parts))
          /\ ThroughArray(OwnValue(v, Head(parts)), Tail(parts))

PassesThroughArray(path) == ThroughArray(config, SplitDot(path))

\* C10: a token whose dotted path passes through an array-valued entry never
\* resolves: getNestedValue yields undefined for it, the validator does not
\* report it found and the replacer does not substitute a value for it.
C10_ArraysAreOpaque ==
    /\ (last.op = "getNestedValue" /\ PassesThroughArray(last.path))
          => last.value = Undefined
    /\ last.op = "validateAgainstTokens" =>
          \A i \in 1..Len(last.report.found) :
              ~PassesThroughArray(last.report.found[i].token)
    /\ last.op = "replaceTokens" =>
          \A t \in Range(last.out.substituted) : ~PassesThroughArray(t)

----------------------------------------------------------------------------
(* Extraction: claim C11 *)

\* text[i..j] is a marker: "{{", a name of one or more characters other than
\* "}", and "}}".
IsMarker(text, i, j) ==
    /\ i + 4 <= j /\ j <= Len(text)
    /\ text[i] = "{" /\ text[i + 1] = "{"
    /\ text[j - 1] = "}" /\ text[j] = "}"
    /\ \A k \in (i + 2)..(j - 2) : text[k] # "}"

MarkerName(text, i, j) == Trim(SubSeq(text, i + 2, j - 2))

\* C11: extractTokens returns a list in ascending order without duplicates
\* that holds exactly the trimmed names of the markers of the text: every
\* name listed is the name of a marker, and every closing "}}" of a marker
\* gives the name of the marker that the scan from the left ends there; text
\* that is no marker (unterminated, empty or single-braced) gives nothing and
\* no error; a second call on the same text returns the same list.
C11_ExtractSortedUnique ==
    last.op = "extractTokens" =>
        LET tokens == last.tokens
            n == Len(content)
        IN  /\ \A k \in 1..(Len(tokens) - 1) : StrLess(tokens[k], tokens[k + 1])
            /\ \A k \in 1..Len(tokens) :
                  \E i, j \in 1..n :
                      IsMarker(content, i, j) /\ MarkerName(content, i, j) = tokens[k]
            /\ \A i, j \in 1..n :
                  IsMarker(content, i, j) =>
                      \E h \in 1..i :
                          /\ IsMarker(content, h, j)
                          /\ MarkerName(content, h, j) \in Range(tokens)
            /\ (\A i, j \in 1..n : ~IsMarker(content, i, j)) => tokens = <<>>
            /\ last.calls = 2 => tokens = last.previous

\* Two calls on a text with a padded marker and an unterminated marker.
C11_Witness ==
    /\ last.op = "extractTokens"
    /\ last.calls = 2
    /\ content = <<"{", "{", " ", "a", " ", "}", "}", "{", "{", "a">>
    /\ last.tokens = <<KeyA>>

----------------------------------------------------------------------------
(* Validation: claims C12, C13 and C14 *)

\* The token has no usable value in the configuration: it resolves to
\* undefined or null, or to the empty string when empty values are not allowed.
IsMissing(token, allowEmpty) ==
    LET value == GetNestedValue(config, token)
    IN  \/ value.t \in {"undefined", "null"}
        \/ ~allowEmpty /\ value = Str(<<>>)

\* The entries of a list of errors or warnings that report a missing token.
MissingIssues(issues) == SelectSeq(issues, LAMBDA w : w.kind = "missing")

\* C12: the report's valid flag is false exactly when strictMode is set and a
\* token is missing; in strict mode errors holds one entry for every missing
\* token, in non-strict mode every missing token gives a warning and errors
\* is empty.
C12_ValidIffNotStrictMissing ==
    last.op = "validateAgainstTokens" =>
        LET report == last.report
            missing == SelectSeq(last.tokens,
                                 LAMBDA t : IsMissing(t, last.options.allowEmpty))
        IN  /\ report.valid <=> ~(last.options.strictMode /\ missing # <<>>)
            /\ last.options.strictMode =>
                  /\ TokensOf(report.errors) = missing
                  /\ MissingIssues(report.warnings) = <<>>
            /\ ~last.options.strictMode =>
                  /\ report.errors = <<>>
                  /\ TokensOf(MissingIssues(report.warnings)) = missing

\* A strict validation with two missing tokens.
C12_Witness ==
    /\ last.op = "validateAgainstTokens"
    /\ last.options.strictMode
    /\ ~last.report.valid
    /\ Len(last.report.errors) = 2

\* The keys of a mapping and of the mappings nested in it.
RECURSIVE KeysIn(_)
KeysIn(v) ==
    IF v.t # "object" THEN {}
    ELSE UNION {{v.kids[i].k} \cup KeysIn(v.kids[i].v) : i \in 1..Len(v.kids)}

\* The dotted paths of at most n keys.
RECURSIVE DottedPaths(_, _)
DottedPaths(keys, n) ==
    IF n = 0 THEN {}
    ELSE LET shorter == DottedPaths(keys, n - 1)
         IN  keys \cup {p \o <<".">> \o k : p \in shorter, k \in keys}

\* The nesting depth of a mapping: 0 for a leaf.
RECURSIVE Depth(_)
Depth(v) ==
    IF v.t # "object" \/ v.kids = <<>> THEN 0
    ELSE LET deepest == CHOOSE i \in 1..Len(v.kids) :
                            \A j \in 1..Len(v.kids) :
                                Depth(v.kids[j].v) <= Depth(v.kids[i].v)
         IN  1 + Depth(v.kids[deepest].v)

\* The path leads, through nested mappings, to a leaf: an array, a scalar or
\* null.
RECURSIVE LeadsToLeaf(_, _)
LeadsToLeaf(v, parts) ==
    IF parts = <<>> THEN v.t # "object"
    ELSE /\ v.t = "object"
         /\ HasOwn(v, Head(parts))
         /\ LeadsToLeaf(OwnValue(v, Head(parts)), Tail(parts))

LeafPaths(cfg) ==
    {p \in DottedPaths(KeysIn(cfg), Depth(cfg)) : LeadsToLeaf(cfg, SplitDot(p))}

\* C13: with warnOnUnused the report's unused list holds, once each, exactly
\* the dotted leaf paths of the configuration (nested mappings flattened,
\* arrays and scalars as leaves) that are not in the token list; it changes
\* neither the valid flag nor the found, missing and errors lists; without
\* warnOnUnused it is empty.  {a: "v", b: "y"} with the token a gives [b].
C13_UnusedAreUnreferencedLeaves ==
    (last.op = "validateAgainstTokens" /\ config.t = "object") =>
        LET report == last.report
            unused == report.unused
            plain == ValidateAgainstTokens(config, last.tokens,
                        [last.options EXCEPT !.warnOnUnused = FALSE])
        IN  /\ last.options.warnOnUnused =>
                  /\ Range(unused) = LeafPaths(config) \ Range(last.tokens)
                  /\ Cardinality(Range(unused)) = Len(unused)
            /\ ~last.options.warnOnUnused => unused = <<>>
            /\ report.valid = plain.valid
            /\ report.found = plain.found
            /\ report.missing = plain.missing
            /\ report.errors = plain.errors
            /\ ( /\ last.options.warnOnUnused
                 /\ config = Obj(<<Prop(KeyA, Str(<<"v">>)), Prop(KeyB, Str(<<"y">>))>>)
                 /\ last.tokens = <<KeyA>> ) => unused = <<KeyB>>

\* {a: "v", b: "y"} validated against the token a with warnOnUnused.
C13_Witness ==
    /\ last.op = "validateAgainstTokens"
    /\ last.options.warnOnUnused
    /\ config = Obj(<<Prop(KeyA, Str(<<"v">>)), Prop(KeyB, Str(<<"y">>))>>)
    /\ last.tokens = <<KeyA>>
    /\ last.report.unused = <<KeyB>>

\* The segments of p are the first segments of q, which has more.
DottedPrefix(p, q) ==
    LET ps == SplitDot(p)
        qs == SplitDot(q)
    IN  Len(ps) < Len(qs) /\ SubSeq(qs, 1, Len(ps)) = ps

\* C14 as claimed: resolving the dotted path of any missing token in
\* suggestedConfig yields the token's placeholder, for every missing token at
\* once, also when one is a dotted prefix of another.
C14_EverySuggestionResolves ==
    last.op = "generateValidationReport" =>
        \A i \in 1..Len(last.report.details.missing) :
            LET token == last.report.details.missing[i].token
            IN  GetNestedValue(last.report.suggestedConfig, token) = SuggestedValue(token)

\* C14 as amended: a report with missing tokens has a suggestedConfig, and
\* resolving the dotted path of a missing token in it yields the token's
\* placeholder unless a missing token later in the list is a dotted prefix or
\* a dotted extension of it (the later assignment replaces the earlier one).
C14_LastSuggestionResolves ==
    last.op = "generateValidationReport" =>
        LET missing == last.report.details.missing
        IN  /\ missing # <<>> => last.report.suggestedConfig.t = "object"
            /\ missing = <<>> => last.report.suggestedConfig = Undefined
            /\ \A i \in 1..Len(missing) :
                  (\A j \in (i + 1)..Len(missing) :
                      /\ ~DottedPrefix(missing[i].token, missing[j].token)
                      /\ ~DottedPrefix(missing[j].token, missing[i].token))
                  => GetNestedValue(last.report.suggestedConfig, missing[i].token)
                        = SuggestedValue(missing[i].token)

\* The tokens a and a.b are both missing: the suggestion is {a: {b: "[a.b]"}}.
C14_Witness ==
    /\ last.op = "generateValidationReport"
    /\ TokensOf(last.report.details.missing) = <<KeyA, <<"a", ".", "b">> >>
    /\ last.report.suggestedConfig
          = Obj(<<Prop(KeyA, Obj(<<Prop(KeyB, SuggestedValue(<<"a", ".", "b">>))>>))>>)

----------------------------------------------------------------------------
(* The template processor: claims C15, C16, C17 and C18 *)

Pipeline == <<"read", "extract", "validate", "replace">>

\* C15: processTemplate goes through read, extract, validate, replace in that
\* order; when the validation is invalid (strictValidation and a missing
\* token) and the policy is fail, it fails before the replacement, the
\* failure carries every validation error, and the result holds no content;
\* in every other case of a readable template the replacement runs under the
\* configured policy and decides the result.
C15_ValidateBeforeReplace ==
    last.op = "processTemplate" =>
        LET result == last.result
            opts == last.options
            file == files[PathResolve(last.path)]
            tokens == ExtractTokens(file.content)
            missing == SelectSeq(tokens, LAMBDA t : IsMissing(t, opts.allowEmptyValues))
            invalid == opts.strictValidation /\ missing # <<>>
            out == ReplaceTokens(file.content, config, TokensArg(tokens),
                                 [errorHandling |-> opts.errorHandling])
        IN  /\ last.stages = SubSeq(Pipeline, 1, Len(last.stages))
            /\ ~file.exists => last.stages = <<"read">> /\ ~result.success
            /\ (file.exists /\ invalid /\ opts.errorHandling = "fail") =>
                  /\ last.stages = <<"read", "extract", "validate">>
                  /\ ~result.success
                  /\ result.error.kind = "validation"
                  /\ TokensOf(result.error.issues) = missing
                  /\ "content" \notin DOMAIN result
            /\ (file.exists /\ ~(invalid /\ opts.errorHandling = "fail")) =>
                  /\ last.stages = Pipeline
                  /\ result.success <=> ~out.threw
                  /\ result.success => result.content = out.text
                  /\ ~result.success => result.error.kind = "replacement"

\* A strict validation with two missing tokens under the policy fail.
C15_Witness ==
    /\ last.op = "processTemplate"
    /\ last.options.errorHandling = "fail"
    /\ last.options.strictValidation
    /\ ~last.result.success
    /\ last.result.error.kind = "validation"
    /\ Len(last.result.error.issues) = 2

\* The template paths of a list of results.
PathsOf(results) == [i \in 1..Len(results) |-> results[i].templatePath]

\* The results object accounts for the attempted paths: each is in exactly one
\* of the processed and failed lists, both in input order, and the summary
\* counts them.
Accounts(results, paths, attempted) ==
    LET processed == PathsOf(results.processed)
        failed == PathsOf(results.failed)
    IN  /\ Range(processed) \cap Range(failed) = {}
        /\ Range(processed) \cup Range(failed) = Range(attempted)
        /\ processed = SelectSeq(attempted, LAMBDA q : q \in Range(processed))
        /\ failed = SelectSeq(attempted, LAMBDA q : q \in Range(failed))
        /\ \A i \in 1..Len(results.processed) : results.processed[i].success
        /\ \A i \in 1..Len(results.failed) : ~results.failed[i].success
        /\ results.summary.total = Len(paths)
        /\ results.summary.successful = Len(processed)
        /\ results.summary.failed = Len(failed)

\* C16: processMultipleTemplates attempts every input path once, in input
\* order, whatever happened to the files before it: while it runs the paths
\* attempted so far are each in exactly one of processed and failed, and when
\* it returns that holds of all input paths, summary.total is their number and
\* summary.successful + summary.failed = summary.total.
C16_EveryPathHasOneOutcome ==
    /\ call.pc = "batch" =>
          /\ call.next \in 1..(Len(call.paths) + 1)
          /\ Accounts(call.results, call.paths, SubSeq(call.paths, 1, call.next - 1))
    /\ last.op = "processMultipleTemplates" =>
          /\ Accounts(last.results, last.paths, last.paths)
          /\ last.results.summary.successful + last.results.summary.failed
                = last.results.summary.total

\* Three inputs of which the second cannot be read: two successful, one
\* failed, three in total.
C16_Witness ==
    /\ last.op = "processMultipleTemplates"
    /\ Len(last.paths) = 3
    /\ PathsOf(last.results.failed) = <<last.paths[2]>>
    /\ last.results.failed[1].error.kind = "read"
    /\ last.results.summary
          = [total |-> 3, successful |-> 2, failed |-> 1]

\* The success flag of a results object says that no file failed.
FlagIsAllSucceeded(results) ==
    /\ results.success <=> results.failed = <<>>
    /\ results.success <=> results.summary.failed = 0

\* C17: the overall success flag of a batch is true exactly when every file
\* so far succeeded (so it is true for an empty batch), and once it is false
\* no later file sets it back to true: it is still false when the batch
\* returns.
C17_SuccessFlagIsSticky ==
    /\ [](/\ call.pc = "batch" => FlagIsAllSucceeded(call.results)
          /\ last.op = "processMultipleTemplates" => FlagIsAllSucceeded(last.results))
    /\ [][(call.pc = "batch" /\ ~call.results.success) =>
             IF call'.pc = "batch" THEN ~call'.results.success
             ELSE ~last'.results.success]_vars

\* A batch whose first file failed and whose second file succeeded.
C17_Witness ==
    /\ last.op = "processMultipleTemplates"
    /\ Len(last.paths) = 2
    /\ PathsOf(last.results.failed) = <<last.paths[1]>>
    /\ PathsOf(last.results.processed) = <<last.paths[2]>>
    /\ ~last.results.success

\* C18: the aggregated token set of a batch result is the union, without
\* duplicates, of the tokens extracted from all files of the batch, the files
\* whose processing failed after the extraction included.
C18_AggregatesEveryExtraction ==
    last.op = "processMultipleTemplates" =>
        LET aggregated == last.results.aggregatedTokens
        IN  /\ Cardinality(Range(aggregated)) = Len(aggregated)
            /\ Range(aggregated) = UNION {Range(last.seen[i]) : i \in 1..Len(last.seen)}

----------------------------------------------------------------------------
(* The extractor on missing files: claims C19 and C20 *)

\* C19: getCachedTokens on a path whose file does not exist fails, whether
\* the path was cached or not, returns no token list and leaves the cache
\* without an entry for the path; a failed call adds no entry for any path.
C19_MissingFileFailsAndUncaches ==
    /\ [](\A templatePath \in InputPaths :
             ( /\ last.op = "getCachedTokens"
               /\ last.path = templatePath
               /\ ~files[PathResolve(templatePath)].exists )
             => /\ ~last.ok
                /\ last.tokens = <<>>
                /\ ~cache[PathResolve(templatePath)].has)
    /\ [][(last' # last /\ last'.op = "getCachedTokens" /\ ~last'.ok) =>
             \A q \in AbsPaths : cache'[q].has => cache[q].has]_vars

\* A file that was cached and then deleted: the call fails and the entry is
\* gone.
C19_Witness ==
    /\ last.op = "getCachedTokens"
    /\ ~last.ok
    /\ last.error = "Template file not found"
    /\ ~cache[PathResolve(last.path)].has

\* The entries of a mapping whose path is the given one.
EntriesOf(results, templatePath) ==
    SelectSeq(results, LAMBDA e : e.path = templatePath)

\* C20: extractFromMultipleFiles returns a mapping with exactly one entry for
\* every input path: the tokens of the file's content for a readable file, an
\* error record for an unreadable one; the entries of the readable files are
\* those of a call with the readable paths only.
C20_OneEntryPerPath ==
    last.op = "extractFromMultipleFiles" =>
        LET results == last.results
            readable == SelectSeq(last.paths,
                                  LAMBDA q : files[PathResolve(q)].exists)
            alone == ExtractFromMultipleFiles(cache, readable).results
        IN  /\ {results[i].path : i \in 1..Len(results)} = Range(last.paths)
            /\ \A q \in Range(last.paths) :
                  LET entries == EntriesOf(results, q)
                  IN  /\ Len(entries) = 1
                      /\ files[PathResolve(q)].exists =>
                            /\ ~entries[1].isError
                            /\ entries[1].tokens
                                  = ExtractTokens(files[PathResolve(q)].content)
                            /\ EntriesOf(alone, q) = entries
                      /\ ~files[PathResolve(q)].exists =>
                            /\ entries[1].isError
                            /\ entries[1].error # ""

\* Three paths of which the second has no file.
C20_Witness ==
    /\ last.op = "extractFromMultipleFiles"
    /\ Len(last.paths) = 3
    /\ Len(last.results) = 3
    /\ ~last.results[1].isError
    /\ last.results[2].isError
    /\ ~last.results[3].isError

----------------------------------------------------------------------------
(* The cache's bookkeeping: claim C21 *)

\* C21: clearCache(path) removes the entry of that path and no other,
\* clearCache() removes every entry; a successful getCachedTokens adds or
\* keeps the entry of its path, a failed one leaves no entry of its path, and
\* neither touches another entry; nothing else changes the cache.  So the
\* keys are the paths extracted and not cleared or invalidated since, and
\* getCacheStats reports them, with size the number of them.
C21_CacheHoldsExtractedNotCleared ==
    /\ [](last.op = "getCacheStats" =>
            /\ last.stats.files = {p \in AbsPaths : cache[p].has}
            /\ last.stats.size = Cardinality(last.stats.files))
    /\ [][ /\ (last'.op = "clearCache" /\ last'.path # "") =>
                /\ ~cache'[PathResolve(last'.path)].has
                /\ \A q \in AbsPaths \ {PathResolve(last'.path)} : cache'[q] = cache[q]
           /\ (last'.op = "clearCache" /\ last'.path = "") =>
                \A q \in AbsPaths : ~cache'[q].has
           /\ last'.op = "getCachedTokens" =>
                /\ cache'[PathResolve(last'.path)].has = last'.ok
                /\ \A q \in AbsPaths \ {PathResolve(last'.path)} : cache'[q] = cache[q]
           /\ last'.op \notin {"clearCache", "getCachedTokens"} => cache' = cache
         ]_vars

\* One path cleared while the other path's entry stays.
C21_Witness ==
    /\ last.op = "clearCache"
    /\ last.path # ""
    /\ ~cache[PathResolve(last.path)].has
    /\ \E q \in AbsPaths : cache[q].has

----------------------------------------------------------------------------
(* The dry run: claim C23 *)

\* The tokens of a list of entries that carry one.
EntryTokens(entries) == [i \in 1..Len(entries) |-> entries[i].token]

\* The text that is the marker of one token.
MarkerOf(token) == <<"{", "{">> \o token \o <<"}", "}">>

\* C23: previewReplacements puts every input token in exactly one of its
\* tokens and missing lists and reports no error; under each of the three
\* policies its tokens list holds the tokens replaceTokens substitutes with
\* their configured value, with the String(value) replaceTokens passes to
\* String.replace, and its missing list holds the tokens replaceTokens hands
\* to the missing-token policy.
C23_PreviewClassifiesAsReplace ==
    last.op = "previewReplacements" =>
        LET preview == last.preview
            found == EntryTokens(preview.tokens)
            missing == EntryTokens(preview.missing)
            given == [given |-> TRUE, list |-> last.tokens]
        IN  /\ preview.errors = <<>>
            /\ Len(found) + Len(missing) = Len(last.tokens)
            /\ \A token \in Range(last.tokens) :
                  (token \in Range(found)) # (token \in Range(missing))
            /\ \A policy \in {"fail", "warn", "graceful"} :
                  LET out == ReplaceTokens(content, config, given,
                                           [errorHandling |-> policy])
                  IN  /\ found = out.substituted
                      /\ missing = IF policy = "fail"
                                   THEN EntryTokens(out.error)
                                   ELSE out.placed
            /\ \A i \in 1..Len(preview.tokens) :
                  LET token == preview.tokens[i].token
                  IN  ReplaceTokens(MarkerOf(token), config,
                                    [given |-> TRUE, list |-> <<token>>],
                                    [errorHandling |-> "warn"]).text
                        = StringReplace(MarkerOf(token), TokenRegex(token),
                                        preview.tokens[i].value)

\* A preview with a found and a missing token.
C23_Witness ==
    /\ last.op = "previewReplacements"
    /\ last.preview.tokens # <<>>
    /\ last.preview.missing # <<>>

----------------------------------------------------------------------------
(* The configuration as input: claim C22 *)

----------------------------------------------------------------------------
(* The processor's policy: claims C24 and C26 *)

ValidStrategies == {"fail", "warn", "graceful"}

\* C24: setErrorHandling(s) with s one of the three policies sets the
\* processor's errorHandling to s and changes no other option; with another
\* value it throws and leaves the options as they were; a processTemplate
\* call without errorHandling among its own options runs under the
\* processor's errorHandling.
C24_SetErrorHandlingSetsPolicy ==
    /\ [](( /\ last.op = "processTemplate"
            /\ "errorHandling" \notin DOMAIN last.given )
          => last.result.metadata.options.errorHandling
               = processor.options.errorHandling)
    /\ [][(last'.op = "setErrorHandling") =>
             IF last'.strategy \in ValidStrategies
             THEN /\ ~last'.threw
                  /\ processor'.options
                       = [processor.options EXCEPT !.errorHandling = last'.strategy]
             ELSE /\ last'.threw
                  /\ processor' = processor]_vars

\* setErrorHandling('fail') has changed the policy of a processor whose
\* strict validation was switched on before.
C24_Witness ==
    /\ last.op = "setErrorHandling"
    /\ last.strategy = "fail"
    /\ ~last.threw
    /\ processor.options.errorHandling = "fail"
    /\ processor.options.strictValidation

\* C26: every template is processed under one of the policies fail, warn and
\* graceful.
C26_PolicyIsOneOfThree ==
    last.op = "processTemplate" =>
        last.result.metadata.options.errorHandling \in ValidStrategies

----------------------------------------------------------------------------
(* The validator's partition: claim C27 *)

\* C27: the found and missing lists of validateAgainstTokens split the token
\* list, each keeping the input order; every missing entry has one of the
\* three reasons, the empty-string reason only when allowEmpty is false; the
\* summary of generateValidationReport has total = found + missing.
C27_FoundAndMissingPartitionTokens ==
    /\ last.op = "validateAgainstTokens" =>
          LET found == EntryTokens(last.report.found)
              missing == EntryTokens(last.report.missing)
          IN  /\ Len(found) + Len(missing) = Len(last.tokens)
              /\ found = SelectSeq(last.tokens, LAMBDA t : t \in Range(found))
              /\ missing = SelectSeq(last.tokens, LAMBDA t : t \in Range(missing))
              /\ Range(found) \cap Range(missing) = {}
              /\ \A i \in 1..Len(last.report.missing) :
                    /\ last.report.missing[i].reason
                          \in {"not found in config", "value is null",
                               "value is empty string"}
                    /\ last.report.missing[i].reason = "value is empty string"
                          => ~last.options.allowEmpty
    /\ last.op = "generateValidationReport" =>
          /\ last.report.summary.total = Len(last.tokens)
          /\ last.report.summary.total
                = last.report.summary.found + last.report.summary.missing

\* A validation with a found token and a token missing for its empty value.
C27_Witness ==
    /\ last.op = "validateAgainstTokens"
    /\ last.report.found # <<>>
    /\ \E i \in 1..Len(last.report.missing) :
          last.report.missing[i].reason = "value is empty string"

----------------------------------------------------------------------------
(* Success under the policy fail: claim C28 *)

\* C28: a processTemplate result with success = true under the policy fail
\* has an empty tokens.missing list.
C28_FailSucceedsOnlyWithoutMissing ==
    ( /\ last.op = "processTemplate"
      /\ last.options.errorHandling = "fail"
      /\ last.result.success )
    => last.result.tokens.missing = <<>>

----------------------------------------------------------------------------
(* Configuration pre-processing: claim C25 *)

\* C25: the configuration returned by applyDefaults or processConfig has,
\* for every top-level key but payment and for every key of the payment
\* object that the input holds with a value that is not blank, the value of
\* the input: the token of that key resolves to it.
C25_SuppliedFieldsAreKept ==
    (last.op \in {"applyDefaults", "processConfig"} /\ ~last.threw) =>
        LET payment == GetProp(config, Key.payment)
        IN  /\ \A i \in 1..Len(config.kids) :
                  (config.kids[i].k # Key.payment /\ ~Blank(config.kids[i].v))
                  => GetNestedValue(last.config, config.kids[i].k) = config.kids[i].v
            /\ \A i \in 1..Len(payment.kids) :
                  ~Blank(payment.kids[i].v)
                  => GetNestedValue(last.config,
                                    Key.payment \o <<".">> \o payment.kids[i].k)
                       = payment.kids[i].v

----------------------------------------------------------------------------
(* The development server: claim C29 *)

\* The path lies in the directory: it goes on below it.
Inside(filePath, directory) ==
    /\ Len(filePath) > Len(directory) + 1
    /\ SubSeq(filePath, 1, Len(directory) + 1) = directory \o <<"/">>

\* C29: a request answered by 200 was for a file inside rootDir or inside
\* the assets directory of the project, and every request that is over got
\* exactly one response.
C29_ServesOnlyServedDirectories ==
    last.op = "request" =>
        /\ 200 \in Range(last.responses) =>
              \/ Inside(last.filePath, Server.rootDir)
              \/ Inside(last.filePath,
                        PathJoin(Server.projectRoot, <<"a", "s", "s", "e", "t", "s">>))
        /\ call.pc = "idle" => Len(last.responses) = 1

----------------------------------------------------------------------------
(* The build: claim C30 *)

\* C30: PDF generation is started only after customization has returned
\* success; when customization fails (returns success false or throws) PDF
\* generation is not started and the build fails; the build reports success
\* exactly when both steps returned success.
C30_PdfOnlyAfterCustomization ==
    /\ call.pc = "pdf" =>
          /\ call.customize.success
          /\ call.started = <<"customize", "pdf">>
    /\ call.pc = "customize" => call.started = <<"customize">>
    /\ last.op = "buildClient" =>
          /\ ~last.customize.success =>
                /\ last.started = <<"customize">>
                /\ ~last.result.success
          /\ last.customize.success => last.started = <<"customize", "pdf">>
          /\ last.result.success <=> (last.customize.success /\ last.pdf.success)

\* A build that failed in customization and never started the PDFs.
C30_Witness ==
    /\ last.op = "buildClient"
    /\ ~last.customize.threw
    /\ ~last.customize.success
    /\ last.started = <<"customize">>
    /\ ~last.result.success

====
